---- MODULE Spec2Model ----
(***************************************************************************)
(* Model of src/polymarket_bot.py: the detection engine of                 *)
(* PolymarketTelegramBot (analyze_trade and the rolling stores it keeps),   *)
(* the scan loop that feeds it and the Telegram command handler.            *)
(*                                                                         *)
(* Numbers.  Python floats are modelled by exact integers:                  *)
(*   - sizes are whole units;                                               *)
(*   - prices, values, volumes and every threshold are kept in hundredths   *)
(*     (price 0.90 is 90, the threshold 2.5 is 250, $1000 is 100000), so    *)
(*     that value = size * price needs no further scaling;                  *)
(*   - instants are whole seconds since 2024-01-01T00:00:00; a stored       *)
(*     timestamp is the instant its ISO string denotes, and isoformat       *)
(*     builds the string where the code formats one.  Trades carry          *)
(*     timestamps in the format datetime.isoformat() produces (the format   *)
(*     the code itself uses for its default, line 228).                     *)
(***************************************************************************)
EXTENDS Integers, Sequences, FiniteSets, TLC

VARIABLES
    wallet_history,   \* self.wallet_history : wallet -> list of trade entries
    market_volumes,   \* self.market_volumes : market id -> list of sizes
    market_prices,    \* self.market_prices  : market id -> list of {timestamp, price}
    wallet_outcomes,  \* self.wallet_outcomes: wallet -> list of {market_id, outcome, price}
    sent_alerts,      \* self.sent_alerts    : set of alert keys
    is_paused,        \* self.is_paused
    scan_interval,    \* self.scan_interval
    thresholds,       \* self.thresholds
    clock,            \* what datetime.now() returns
    scanning,         \* the scan thread is inside the loops of scan_markets
    last,             \* the operation just performed, its input and what it returned
    arrivals,         \* history: the trades analysed so far (not suppressed), in order,
                      \*          each with the types of the alerts its call returned
    last_set,         \* history: the last accepted /set, <<param, value>>, or <<>>
    nOps,             \* analyze_trade calls and commands so far
    pc,               \* where the scan thread stands inside analyze_trade, or "idle"
    frame,            \* the locals of the analyze_trade call in progress, or <<>>
    cycle,            \* where the main thread stands in run() and scan_markets, and
                      \* the locals of scan_markets
    cycles,           \* history: the scan cycles so far, each with what it fetched,
                      \*          analysed, detected and sent
    last_update_id,   \* self.last_update_id
    inbox,            \* the updates Telegram holds for the bot, oldest first
    updates,          \* listen_for_commands: the updates fetched and not yet looked at
    seen              \* history: the updates the loop of listen_for_commands has
                      \*          looked at, each with whether it reached process_command

stores == <<wallet_history, market_volumes, market_prices, wallet_outcomes>>
config == <<is_paused, scan_interval, thresholds>>
\* the state that only the step-by-step views of the threads use
listen == <<last_update_id, inbox, updates, seen>>
aux == <<pc, frame, cycle, cycles, listen>>
vars == <<wallet_history, market_volumes, market_prices, wallet_outcomes, sent_alerts,
          is_paused, scan_interval, thresholds, clock, scanning, last, arrivals,
          last_set, nOps, pc, frame, cycle, cycles, last_update_id, inbox, updates,
          seen>>

-----------------------------------------------------------------------------
(* Python values *)

PyNone == "<None>"

\* str(x) inside an f-string
PyStr(x) == IF x = PyNone THEN "None" ELSE x

\* `if x:` for a string or None
Truthy(x) == x # PyNone /\ x # ""

\* dict.get(k, default)
DictGet(d, k, default) == IF k \in DOMAIN d THEN d[k] ELSE default

\* defaultdict(list): reading d[k] of a missing key gives []
ListOf(d, k) == IF k \in DOMAIN d THEN d[k] ELSE <<>>

\* d[k] = v
DictPut(d, k, v) == [x \in DOMAIN d \cup {k} |-> IF x = k THEN v ELSE d[x]]

RECURSIVE SeqSum(_)
SeqSum(s) ==
    IF Len(s) = 0 THEN 0
    ELSE IF Len(s) = 1 THEN s[1]
    ELSE LET half == Len(s) \div 2
         IN  SeqSum(SubSeq(s, 1, half)) + SeqSum(SubSeq(s, half + 1, Len(s)))

\* [x for x in s if P(x)]
Filter(s, P(_)) == SelectSeq(s, P)

\* s[-n:]
LastN(s, n) == IF Len(s) <= n THEN s ELSE SubSeq(s, Len(s) - n + 1, Len(s))

Abs(x) == IF x < 0 THEN -x ELSE x

-----------------------------------------------------------------------------
(* Time *)

SecondsPerDay == 86400

Pad2(n) == IF n < 10 THEN "0" \o ToString(n) ELSE ToString(n)

\* datetime.isoformat() of the instant t (seconds since 2024-01-01T00:00:00)
isoformat(t) ==
    "2024-01-" \o Pad2(1 + (t \div SecondsPerDay)) \o "T"
        \o Pad2((t % SecondsPerDay) \div 3600) \o ":"
        \o Pad2((t % 3600) \div 60) \o ":" \o Pad2(t % 60)

\* timedelta.days: whole days, rounded towards minus infinity
TimedeltaDays(seconds) == seconds \div SecondsPerDay

-----------------------------------------------------------------------------
(* __init__ *)

DefaultThresholds ==
    [ fresh_wallet_days       |-> 700,
      fresh_wallet_min_value  |-> 100000,
      unusual_size_multiplier |-> 250,
      niche_volume_max        |-> 1000000,
      niche_trades_min        |-> 300,
      win_rate_conviction_min |-> 700,
      win_rate_min_value      |-> 30000,
      pre_move_min_value      |-> 50000,
      pre_move_change_pct     |-> 15,
      coordinated_min_value   |-> 20000,
      coordinated_min_wallets |-> 300 ]

DefaultScanInterval == 60

EmptyDict == [k \in {} |-> <<>>]

-----------------------------------------------------------------------------
(* analyze_trade: the fragments of the method, in source order *)

\* alert_key = f"{wallet}_{market_data.get('condition_id')}_{timestamp}"
alert_key(wallet, market_data, timestamp) ==
    wallet \o "_" \o PyStr(DictGet(market_data, "condition_id", PyNone))
           \o "_" \o isoformat(timestamp)

\* dedup_seen with the ledger never consulted
dedup_never(key, sent) == FALSE

\* if alert_key in self.sent_alerts: return []
dedup_seen(key, sent) == key \in sent

\* the entry appended to self.wallet_history[wallet]
history_entry(trade, market_data, now) ==
    LET size  == DictGet(trade, "size", 0)
        price == DictGet(trade, "price", 0)
    IN  [ timestamp |-> DictGet(trade, "timestamp", now),
          market    |-> DictGet(market_data, "question", "unknown"),
          market_id |-> DictGet(market_data, "condition_id", PyNone),
          size      |-> size,
          value     |-> size * price,
          price     |-> price,
          outcome   |-> DictGet(trade, "outcome", "unknown") ]

\* self.wallet_history[wallet].append({...})
record_history(wh, wallet, entry) == DictPut(wh, wallet, Append(ListOf(wh, wallet), entry))

PriceWindowCap == 200
SizeWindowCap == 100

\* append_capped with pop() for pop(0): the newest entry goes, not the oldest
append_capped_pop_last(lst, x, cap) ==
    LET a == Append(lst, x) IN IF Len(a) > cap THEN SubSeq(a, 1, Len(a) - 1) ELSE a

\* lst.append(x); if len(lst) > cap: lst.pop(0)
append_capped(lst, x, cap) ==
    LET a == Append(lst, x) IN IF Len(a) > cap THEN Tail(a) ELSE a

\* if market_id: self.market_prices[market_id].append(...) and the pop(0)
record_price(mp, market_id, timestamp, price) ==
    IF Truthy(market_id)
    THEN DictPut(mp, market_id,
                 append_capped(ListOf(mp, market_id),
                               [timestamp |-> timestamp, price |-> price],
                               PriceWindowCap))
    ELSE mp

\* get_wallet_age counting from the moment of the call instead of the first timestamp
get_wallet_age_zero(wh, address, now) ==
    IF address \in DOMAIN wh THEN << 0 >> ELSE <<>>

\* get_wallet_age: <<>> is None, <<d>> is d days
get_wallet_age(wh, address, now) ==
    IF address \in DOMAIN wh
    THEN << TimedeltaDays(now - wh[address][1].timestamp) >>
    ELSE <<>>

\* fresh_wallet_fires reading the value threshold the bot was constructed with
fresh_wallet_fires_cached(wallet_age, value, th) ==
    /\ wallet_age # <<>>
    /\ wallet_age[1] * 100 < th.fresh_wallet_days
    /\ value > DefaultThresholds.fresh_wallet_min_value

\* lines 255-257
fresh_wallet_fires(wallet_age, value, th) ==
    /\ wallet_age # <<>>
    /\ wallet_age[1] * 100 < th.fresh_wallet_days
    /\ value > th.fresh_wallet_min_value

\* unusual_size_fires with the window test off by one
unusual_size_fires_from_10(recent_trades, size, th) ==
    /\ Len(recent_trades) >= 10
    /\ size * Len(recent_trades) * 100 > SeqSum(recent_trades) * th.unusual_size_multiplier

\* lines 269-271: len(recent_trades) > 10 and size > avg_size * multiplier
unusual_size_fires(recent_trades, size, th) ==
    /\ Len(recent_trades) > 10
    /\ size * Len(recent_trades) * 100 > SeqSum(recent_trades) * th.unusual_size_multiplier

\* record_size with the append moved inside the `len(recent_trades) > 10` block
record_size_warm_only(mv, market_id, size) ==
    IF Truthy(market_id) /\ Len(ListOf(mv, market_id)) > 10
    THEN DictPut(mv, market_id, Append(ListOf(mv, market_id), size))
    ELSE mv

\* self.market_volumes[market_id].append(size) and the pop(0)
record_size(mv, market_id, size) ==
    IF Truthy(market_id)
    THEN DictPut(mv, market_id, append_capped(ListOf(mv, market_id), size, SizeWindowCap))
    ELSE mv

\* same_market_trades matching on the market id instead of the question
same_market_trades_by_id(wallet_trades, market_data) ==
    LET id == DictGet(market_data, "condition_id", PyNone)
        Same(t) == t.market_id = id
    IN  Filter(wallet_trades, Same)

\* [t for t in wallet_trades if t['market'] == market_data.get('question')]
same_market_trades(wallet_trades, market_data) ==
    LET q == DictGet(market_data, "question", PyNone)
        Same(t) == t.market = q
    IN  Filter(wallet_trades, Same)

\* lines 289-290
niche_fires(same_trades, volume, th) ==
    /\ Len(same_trades) * 100 > th.niche_trades_min
    /\ volume < th.niche_volume_max

\* self.wallet_outcomes[wallet].append({...})
record_outcome(wo, wallet, market_id, outcome, price) ==
    DictPut(wo, wallet,
            Append(ListOf(wo, wallet),
                   [market_id |-> market_id, outcome |-> outcome, price |-> price]))

\* [t for t in self.wallet_outcomes[wallet][-20:] if t['price'] > 0.8 or t['price'] < 0.2]
high_conviction_trades(outcomes) ==
    LET Conv(t) == t.price > 80 \/ t.price < 20
    IN  Filter(LastN(outcomes, 20), Conv)

\* lines 306, 312-313
conviction_fires(outcomes, value, th) ==
    /\ Len(outcomes) >= 10
    /\ Len(high_conviction_trades(outcomes)) * 100 >= th.win_rate_conviction_min
    /\ value > th.win_rate_min_value

\* [p for p in recent_prices if (now - fromisoformat(p['timestamp'])).total_seconds() < 1800]
last_30_min(recent_prices, now_ts) ==
    LET Recent(p) == now_ts - p.timestamp < 1800
    IN  Filter(recent_prices, Recent)

\* pre_move_fires measuring the change from the entry of the last 30 minutes with
\* the earliest timestamp instead of the first one stored
pre_move_fires_earliest(market_id, recent_prices, timestamp, price, value, th) ==
    /\ Truthy(market_id)
    /\ value > th.pre_move_min_value
    /\ Len(recent_prices) > 10
    /\ LET l30 == last_30_min(recent_prices, timestamp)
       IN  /\ Len(l30) >= 5
           /\ \E i \in DOMAIN l30 :
                 /\ \A j \in DOMAIN l30 : l30[i].timestamp <= l30[j].timestamp
                 /\ Abs(price - l30[i].price) > th.pre_move_change_pct

\* lines 325-338
pre_move_fires(market_id, recent_prices, timestamp, price, value, th) ==
    /\ Truthy(market_id)
    /\ value > th.pre_move_min_value
    /\ Len(recent_prices) > 10
    /\ LET l30 == last_30_min(recent_prices, timestamp)
       IN  /\ Len(l30) >= 5
           /\ Abs(price - l30[1].price) > th.pre_move_change_pct

\* unique_wallets looking through all the trades of a wallet, not the last five
unique_wallets_all_trades(wh, wallet, market_id, outcome, timestamp) ==
    { w \in DOMAIN wh \ {wallet} :
        \E i \in DOMAIN wh[w] :
            /\ wh[w][i].market_id = market_id
            /\ wh[w][i].outcome = outcome
            /\ Abs(timestamp - wh[w][i].timestamp) < 300 }

\* lines 353-363: set(similar_recent)
unique_wallets(wh, wallet, market_id, outcome, timestamp) ==
    { w \in DOMAIN wh \ {wallet} :
        \E i \in DOMAIN LastN(wh[w], 5) :
            LET t == LastN(wh[w], 5)[i]
            IN  /\ t.market_id = market_id
                /\ t.outcome = outcome
                /\ Abs(timestamp - t.timestamp) < 300 }

\* lines 350, 364
coordinated_fires(market_id, uniq, value, th) ==
    /\ Truthy(market_id)
    /\ value > th.coordinated_min_value
    /\ (Cardinality(uniq) + 1) * 100 >= th.coordinated_min_wallets

\* mark_sent building the ledger anew from the alerts of the call
mark_sent_anew(sent, alerts) == { alerts[i].key : i \in DOMAIN alerts }

\* for alert in alerts: self.sent_alerts.add(alert['key'])
mark_sent(sent, alerts) == sent \cup { alerts[i].key : i \in DOMAIN alerts }

\* IfAlert appending the alert twice
IfAlert_twice(cond, alert) == IF cond THEN << alert, alert >> ELSE <<>>

\* [x] if cond else []
IfAlert(cond, alert) == IF cond THEN << alert >> ELSE <<>>

\* analyze_trade(trade, market_data) on the stores (wh, mv, mp, wo, sent), with the
\* thresholds th and datetime.now() = now: the stores after the call and the list
\* returned
analyze_trade(wh, mv, mp, wo, sent, th, trade, market_data, now) ==
    LET wallet    == DictGet(trade, "maker_address", "unknown")
        size      == DictGet(trade, "size", 0)
        price     == DictGet(trade, "price", 0)
        value     == size * price
        timestamp == DictGet(trade, "timestamp", now)
        outcome   == DictGet(trade, "outcome", "unknown")
        question  == DictGet(market_data, "question", "unknown")
        key       == alert_key(wallet, market_data, timestamp)
        market_id == DictGet(market_data, "condition_id", PyNone)
        wh1       == record_history(wh, wallet, history_entry(trade, market_data, now))
        mp1       == record_price(mp, market_id, timestamp, price)
        age       == get_wallet_age(wh1, wallet, now)
        recent    == ListOf(mv, market_id)
        mv1       == record_size(mv, market_id, size)
        same      == same_market_trades(wh1[wallet], market_data)
        volume    == DictGet(market_data, "volume", 0)
        wo1       == record_outcome(wo, wallet, market_id, outcome, price)
        prices    == ListOf(mp1, market_id)
        uniq      == unique_wallets(wh1, wallet, market_id, outcome, timestamp)
        a1 == IfAlert(fresh_wallet_fires(age, value, th),
                      [type |-> "FRESH_WALLET_LARGE_BET", wallet |-> wallet,
                       age_days |-> age[1], value |-> value,
                       market |-> question, key |-> key])
        a2 == IfAlert(Truthy(market_id) /\ unusual_size_fires(recent, size, th),
                      [type |-> "UNUSUAL_SIZE", wallet |-> wallet, size |-> size,
                       avg_size |-> <<SeqSum(recent), Len(recent)>>,
                       market |-> question, key |-> key])
        a3 == IfAlert(niche_fires(same, volume, th),
                      [type |-> "REPEAT_NICHE_PLAYER", wallet |-> wallet,
                       trades_count |-> Len(same), market_volume |-> volume,
                       market |-> question, key |-> key])
        a4 == IfAlert(conviction_fires(wo1[wallet], value, th),
                      [type |-> "HIGH_WIN_RATE_TRADER", wallet |-> wallet,
                       conviction_trades |-> Len(high_conviction_trades(wo1[wallet])),
                       total_trades |-> Len(wo1[wallet]), current_market |-> question,
                       current_price |-> price, value |-> value, key |-> key])
        a5 == IfAlert(pre_move_fires(market_id, prices, timestamp, price, value, th),
                      [type |-> "PRE_MOVE_POSITIONING", wallet |-> wallet,
                       value |-> value,
                       old_price |-> last_30_min(prices, timestamp)[1].price,
                       new_price |-> price, market |-> question, key |-> key])
        a6 == IfAlert(coordinated_fires(market_id, uniq, value, th),
                      [type |-> "COORDINATED_ENTRY", wallet |-> wallet,
                       coordinated_wallets |-> Cardinality(uniq) + 1,
                       outcome |-> outcome, market |-> question,
                       value |-> value, key |-> key])
        alerts == a1 \o a2 \o a3 \o a4 \o a5 \o a6
    IN  IF dedup_seen(key, sent)
        THEN [ wallet_history |-> wh, market_volumes |-> mv, market_prices |-> mp,
               wallet_outcomes |-> wo, sent_alerts |-> sent, alerts |-> <<>>,
               analysed |-> FALSE ]
        ELSE [ wallet_history |-> wh1, market_volumes |-> mv1, market_prices |-> mp1,
               wallet_outcomes |-> wo1, sent_alerts |-> mark_sent(sent, alerts),
               alerts |-> alerts, analysed |-> TRUE ]

-----------------------------------------------------------------------------
(* process_command *)

ThresholdNames == DOMAIN DefaultThresholds

\* float(s): the numbers the command texts of the model carry, in hundredths;
\* any other string raises ValueError
FloatTable == ("1" :> 100) @@ ("2" :> 200) @@ ("9" :> 900) @@ ("5000" :> 500000)
                @@ ("30" :> 3000) @@ ("5" :> 500) @@ ("601" :> 60100)
IsFloat(s) == s \in DOMAIN FloatTable
float(s) == FloatTable[s]

\* a word of non-ASCII characters, written by its code points: the two Arabic-Indic
\* digits three and zero, for which str.isdigit() is True and int() gives 30
ArabicIndicThirty == "U+0663 U+0660"

\* SUPERSCRIPT TWO: str.isdigit() is True and int() raises ValueError
SuperscriptTwo == "U+00B2"

\* int(s): the numbers the words of the model carry; leading zeros are dropped
DigitTable == ("30" :> 30) @@ ("5" :> 5) @@ ("601" :> 601) @@ ("1" :> 1) @@ ("2" :> 2)
                @@ ("9" :> 9) @@ ("5000" :> 5000)
                @@ ("2102682028" :> 2102682028)
                @@ ("10" :> 10) @@ ("600" :> 600) @@ ("0" :> 0) @@ ("0030" :> 30)
                @@ (ArabicIndicThirty :> 30)

\* the words s with s.isdigit() for which int(s) raises ValueError
int_raises(s) == s \in {SuperscriptTwo}

\* s.isdigit(): every character is a digit character, decimal or not
isdigit(s) == s \in DOMAIN DigitTable \/ int_raises(s)
int(s) == DigitTable[s]

\* text.startswith(prefix), for the first words the command texts of the model use;
\* a text is the list of its whitespace-separated words, text.split()
StartsWith(text, prefix) ==
    /\ text # <<>>
    /\ \/ text[1] = prefix
       \/ prefix = "/set" /\ text[1] \in {"/settings"}
       \/ prefix = "/interval" /\ text[1] \in {"/intervals"}

MinInterval == 10
MaxInterval == 600

\* the range test without its lower end
interval_in_range_no_floor(n) == n <= MaxInterval

\* line 130: 10 <= new_interval <= 600
interval_in_range(n) == MinInterval <= n /\ n <= MaxInterval

\* set_threshold without the `if param in self.thresholds` test
set_threshold_unchecked(th, param, value) == DictPut(th, param, value)

\* lines 151-152: if param in self.thresholds: self.thresholds[param] = value
set_threshold(th, param, value) ==
    IF param \in DOMAIN th THEN [th EXCEPT ![param] = value] ELSE th

\* pause_handler also forgetting the alerts sent so far
pause_handler_reset(st) == [st EXCEPT !.is_paused = TRUE, !.sent_alerts = {}]

\* lines 107-109: self.is_paused = True; nothing else is touched
pause_handler(st) == [st EXCEPT !.is_paused = TRUE]

\* lines 111-113
resume_handler(st) == [st EXCEPT !.is_paused = FALSE]

\* sum(len(trades) for trades in self.wallet_history.values())
RECURSIVE TotalTrades(_, _)
TotalTrades(wh, ws) ==
    IF ws = {} THEN 0
    ELSE LET w == CHOOSE x \in ws : TRUE
         IN  Len(wh[w]) + TotalTrades(wh, ws \ {w})

\* what /status and /stats read of the stores (lines 121-123, 162-169)
store_stats(st) ==
    [ wallets |-> Cardinality(DOMAIN st.wallet_history),
      markets |-> Cardinality(DOMAIN st.market_volumes),
      alerts  |-> Cardinality(st.sent_alerts),
      total_trades |-> TotalTrades(st.wallet_history, DOMAIN st.wallet_history) ]

\* process_command(message) on the whole state st of the bot: the state after the
\* command and the reply sent with send_telegram; the reply "ValueError" stands for
\* the exception of line 129 leaving process_command with nothing sent
process_command(st, text) ==
    IF text = <<"/start">> \/ text = <<"/help">> THEN
        [st |-> st, reply |-> [kind |-> "help"]]
    ELSE IF text = <<"/pause">> THEN
        [st |-> pause_handler(st), reply |-> [kind |-> "paused"]]
    ELSE IF text = <<"/resume">> THEN
        [st |-> resume_handler(st), reply |-> [kind |-> "resumed"]]
    ELSE IF text = <<"/status">> THEN
        [st |-> st,
         reply |-> [kind |-> "status", paused |-> st.is_paused,
                    interval |-> st.scan_interval, stats |-> store_stats(st)]]
    ELSE IF StartsWith(text, "/interval") THEN
        IF Len(text) = 2 /\ isdigit(text[2]) THEN
            IF int_raises(text[2])
            THEN [st |-> st, reply |-> [kind |-> "ValueError"]]
            ELSE IF interval_in_range(int(text[2]))
            THEN [st |-> [st EXCEPT !.scan_interval = int(text[2])],
                  reply |-> [kind |-> "interval_set"]]
            ELSE [st |-> st, reply |-> [kind |-> "interval_range"]]
        ELSE [st |-> st, reply |-> [kind |-> "interval_usage"]]
    ELSE IF text = <<"/thresholds">> THEN
        [st |-> st, reply |-> [kind |-> "thresholds", shown |-> st.thresholds]]
    ELSE IF StartsWith(text, "/set") THEN
        IF Len(text) = 3 THEN
            IF IsFloat(text[3]) THEN
                [st |-> [st EXCEPT !.thresholds =
                             set_threshold(st.thresholds, text[2], float(text[3]))],
                 reply |-> [kind |-> IF text[2] \in DOMAIN st.thresholds
                                     THEN "set_ok" ELSE "unknown_parameter"]]
            ELSE [st |-> st, reply |-> [kind |-> "invalid_value"]]
        ELSE [st |-> st, reply |-> [kind |-> "set_usage"]]
    ELSE IF text = <<"/stats">> THEN
        [st |-> st, reply |-> [kind |-> "stats", stats |-> store_stats(st)]]
    ELSE [st |-> st, reply |-> [kind |-> "none"]]

\* the state of the bot as one record
BotState ==
    [ wallet_history |-> wallet_history, market_volumes |-> market_volumes,
      market_prices |-> market_prices, wallet_outcomes |-> wallet_outcomes,
      sent_alerts |-> sent_alerts, is_paused |-> is_paused,
      scan_interval |-> scan_interval, thresholds |-> thresholds ]

-----------------------------------------------------------------------------
(* The bot: construction, the scan thread, the command thread, the clock *)

\* 2024-01-01T00:16:40, and the same time of day eight days later
ClockValues == {1000, 692200}
StartClock == 1000

Init ==
    /\ wallet_history = EmptyDict
    /\ market_volumes = EmptyDict
    /\ market_prices = EmptyDict
    /\ wallet_outcomes = EmptyDict
    /\ sent_alerts = {}
    /\ is_paused = FALSE
    /\ scan_interval = DefaultScanInterval
    /\ thresholds = DefaultThresholds
    /\ clock = StartClock
    /\ scanning = FALSE
    /\ last = [op |-> "init"]
    /\ arrivals = <<>>
    /\ last_set = <<>>
    /\ nOps = 0
    /\ pc = "idle"
    /\ frame = <<>>
    /\ cycle = [pc |-> "call", markets |-> <<>>, mi |-> 0, trades |-> <<>>, ti |-> 0,
                new_alerts |-> <<>>, di |-> 0, wake_at |-> 0]
    /\ cycles = <<>>
    /\ last_update_id = 0
    /\ inbox = <<>>
    /\ updates = <<>>
    /\ seen = <<>>

\* time passes
Tick ==
    /\ \E c \in ClockValues : c > clock /\ clock' = c
    /\ last' = [op |-> "tick"]
    /\ UNCHANGED <<stores, sent_alerts, config, scanning, arrivals, last_set, nOps, aux>>

\* scan_markets, lines 447-453: a paused bot returns at once
ScanStart ==
    /\ ~scanning
    /\ scanning' = ~is_paused
    /\ last' = [op |-> IF is_paused THEN "scan_paused" ELSE "scan_start"]
    /\ UNCHANGED <<stores, sent_alerts, config, clock, arrivals, last_set, nOps, aux>>

\* scan_markets, lines 456-458: a market without condition_id is passed over
SkipMarket(markets) ==
    /\ scanning
    /\ \E market \in markets :
          /\ ~Truthy(DictGet(market, "condition_id", PyNone))
          /\ last' = [op |-> "skip_market", market |-> market]
    /\ UNCHANGED <<stores, sent_alerts, config, clock, scanning, arrivals, last_set, nOps, aux>>

\* scan_markets, lines 462-464: one trade of one market goes through analyze_trade
Analyze(trade, market) ==
    LET r == analyze_trade(wallet_history, market_volumes, market_prices,
                           wallet_outcomes, sent_alerts, thresholds,
                           trade, market, clock)
    IN  /\ scanning
        /\ Truthy(DictGet(market, "condition_id", PyNone))
        /\ wallet_history' = r.wallet_history
        /\ market_volumes' = r.market_volumes
        /\ market_prices' = r.market_prices
        /\ wallet_outcomes' = r.wallet_outcomes
        /\ sent_alerts' = r.sent_alerts
        /\ last' = [op |-> "analyze", trade |-> trade, market |-> market,
                    now |-> clock, ret |-> r.alerts]
        /\ arrivals' = IF r.analysed
                       THEN Append(arrivals,
                                   [market_id |-> market.condition_id,
                                    wallet    |-> DictGet(trade, "maker_address", "unknown"),
                                    size      |-> DictGet(trade, "size", 0),
                                    price     |-> DictGet(trade, "price", 0),
                                    timestamp |-> DictGet(trade, "timestamp", clock),
                                    outcome   |-> DictGet(trade, "outcome", "unknown"),
                                    types     |-> { r.alerts[i].type : i \in DOMAIN r.alerts }])
                       ELSE arrivals
        /\ nOps' = nOps + 1
        /\ UNCHANGED <<config, clock, scanning, last_set, aux>>

\* scan_markets, lines 466-473: the loops are over, the alerts are sent
ScanEnd ==
    /\ scanning
    /\ scanning' = FALSE
    /\ last' = [op |-> "scan_end"]
    /\ UNCHANGED <<stores, sent_alerts, config, clock, arrivals, last_set, nOps, aux>>

\* listen_for_commands, line 184: one message goes through process_command
Command(text) ==
    LET r == process_command(BotState, text)
    IN  /\ wallet_history' = r.st.wallet_history
        /\ market_volumes' = r.st.market_volumes
        /\ market_prices' = r.st.market_prices
        /\ wallet_outcomes' = r.st.wallet_outcomes
        /\ sent_alerts' = r.st.sent_alerts
        /\ is_paused' = r.st.is_paused
        /\ scan_interval' = r.st.scan_interval
        /\ thresholds' = r.st.thresholds
        /\ last' = [op |-> "command", text |-> text, reply |-> r.reply]
        /\ last_set' = IF r.reply.kind = "set_ok"
                       THEN <<text[2], FloatTable[text[3]]>> ELSE last_set
        /\ nOps' = nOps + 1
        /\ UNCHANGED <<clock, scanning, arrivals, aux>>

-----------------------------------------------------------------------------
(* Spec: the bot under a small set of deliveries and command texts *)

MaxOps == 3

Markets ==
    [ M1 |-> [condition_id |-> "M1", question |-> "Q1", volume |-> 500000],
      M2 |-> [condition_id |-> "M2", question |-> "Q1", volume |-> 2000000],
      M0 |-> [question |-> "Q0", volume |-> 0] ]

\* a trade of `size` units at `price` hundredths
Trade(wallet, size, price, timestamp, outcome) ==
    [maker_address |-> wallet, size |-> size, price |-> price,
     timestamp |-> timestamp, outcome |-> outcome]

\* the (trade, market) pairs the provider returns: bets of $5 and of $4500
Deliveries ==
    { << Trade("0xA", 10, 50, 0, "Yes"), Markets.M1 >>,
      << Trade("0xA", 5000, 90, 0, "Yes"), Markets.M1 >>,
      << Trade("0xA", 5000, 90, 200, "Yes"), Markets.M1 >>,
      << Trade("0xA", 10, 50, 0, "Yes"), Markets.M2 >>,
      << Trade("0xB", 5000, 90, 0, "Yes"), Markets.M1 >>,
      << Trade("0xB", 10, 50, 200, "No"), Markets.M1 >>,
      << [maker_address |-> "0xA", size |-> 5000, price |-> 90, outcome |-> "Yes"],
         Markets.M1 >> }

EngineCommands ==
    { <<"/pause">>, <<"/status">>,
      <<"/set", "fresh_wallet_min_value", "1">>,
      <<"/set", "fresh_wallet_days", "9">> }

AnalyzeAny ==
    /\ nOps < MaxOps
    /\ \E d \in Deliveries : Analyze(d[1], d[2])

CommandAny ==
    /\ nOps < MaxOps
    /\ \E text \in EngineCommands : Command(text)

Next ==
    \/ Tick
    \/ ScanStart
    \/ SkipMarket({Markets.M0})
    \/ AnalyzeAny
    \/ ScanEnd
    \/ CommandAny

Spec == Init /\ [][Next]_vars

-----------------------------------------------------------------------------
(* SpecCmd: every kind of command text, next to two deliveries *)

MaxCmdOps == 3

CommandTexts ==
    { <<"/start">>, <<"/help">>, <<"/pause">>, <<"/resume">>, <<"/status">>,
      <<"/stats">>, <<"/thresholds">>, <<"hello">>,
      <<"/interval", "30">>, <<"/interval", "5">>, <<"/interval", "601">>,
      <<"/interval", "abc">>, <<"/interval">>, <<"/intervals", "30">>,
      <<"/set", "fresh_wallet_min_value", "1">>,
      <<"/set", "coordinated_min_wallets", "2">>,
      <<"/set", "bogus", "1">>,
      <<"/set", "fresh_wallet_days", "abc">>,
      <<"/set", "fresh_wallet_days">>,
      <<"/set", "fresh_wallet_days", "9", "now">>,
      <<"/settings", "fresh_wallet_days", "2">> }

CmdDeliveries ==
    { << Trade("0xA", 10, 50, 0, "Yes"), Markets.M1 >>,
      << Trade("0xB", 5000, 90, 200, "Yes"), Markets.M2 >> }

AnalyzeCmd ==
    /\ nOps < MaxCmdOps
    /\ \E d \in CmdDeliveries : Analyze(d[1], d[2])

CommandAll ==
    /\ nOps < MaxCmdOps
    /\ \E text \in CommandTexts : Command(text)

NextCmd ==
    \/ ScanStart
    \/ AnalyzeCmd
    \/ ScanEnd
    \/ CommandAll

SpecCmd == Init /\ [][NextCmd]_vars

-----------------------------------------------------------------------------
(* SpecWindow: one market fed, fetch after fetch, until both of its windows are  *)
(* full and evict.  The k-th delivery is a trade of size k + 1 dated k seconds;  *)
(* every hundredth one may instead be a large bet, which raises alerts, and the  *)
(* delivery after it may be that large bet once more.                             *)

MaxWindowOps == 205

\* get_market_trades(condition_id, limit=20)
TradesPerFetch == 20

WindowDeliveries(k) ==
    { << Trade("0xA", k + 1, 50, k, "Yes"), Markets.M2 >> }
    \cup
    ( IF k % 100 = 0
      THEN { << Trade("0xB", 5000 + k, 90, k, "Yes"), Markets.M2 >> }
      ELSE {} )
    \cup
    ( IF k % 100 = 1
      THEN { << Trade("0xB", 5000 + k - 1, 90, k - 1, "Yes"), Markets.M2 >> }
      ELSE {} )

\* the trades of the current fetch have all been analysed
FetchDone == last.op = "analyze" /\ nOps % TradesPerFetch = 0

AnalyzeWindow ==
    /\ nOps < MaxWindowOps
    /\ ~FetchDone
    /\ \E d \in WindowDeliveries(nOps) : Analyze(d[1], d[2])

ScanEndWindow == FetchDone /\ ScanEnd

NextWindow ==
    \/ ScanStart
    \/ AnalyzeWindow
    \/ ScanEndWindow

SpecWindow == Init /\ [][NextWindow]_vars

-----------------------------------------------------------------------------
(* SpecSize: one market's size window warmed up with trades of size 10 at one    *)
(* cent, then trades of sizes at, just above and far above 2.5 times the mean,   *)
(* re-deliveries of the trade just analysed, and a change of the multiplier.     *)

MaxSizeOps == 14

\* the sizes of the model once WarmUp trades are recorded
WarmUp == 9

SizeDeliveries(k) ==
    { << Trade("0xA", z, 1, k, "Yes"), Markets.M2 >> :
         z \in IF k < WarmUp THEN {10} ELSE {10, 25, 26, 5000} }

AnalyzeSize ==
    /\ nOps < MaxSizeOps
    /\ \E d \in SizeDeliveries(Len(arrivals)) : Analyze(d[1], d[2])

\* the provider returns the trade of the last call once more
Redeliver ==
    /\ nOps < MaxSizeOps
    /\ Len(arrivals) >= WarmUp
    /\ last.op = "analyze"
    /\ Analyze(last.trade, last.market)

CommandSize ==
    /\ nOps < MaxSizeOps
    /\ Len(arrivals) >= WarmUp
    /\ Command(<<"/set", "unusual_size_multiplier", "2">>)

NextSize ==
    \/ ScanStart
    \/ AnalyzeSize
    \/ Redeliver
    \/ CommandSize

SpecSize == Init /\ [][NextSize]_vars

-----------------------------------------------------------------------------
(* SpecCoord: four wallets entering one market within and beyond five minutes of *)
(* each other.  A run either starts from the empty stores, or first lets wallet  *)
(* 0xB enter and then trade five more times much later, so that its entry is no  *)
(* longer among its last five trades.                                            *)

MaxCoordOps == 4

\* bets of $500, above coordinated_min_value, and one of $5
CoordDeliveries ==
    { << Trade("0xA", 1000, 50, 0, "Yes"), Markets.M1 >>,
      << Trade("0xB", 1000, 50, 299, "Yes"), Markets.M1 >>,
      << Trade("0xC", 1000, 50, 0, "Yes"), Markets.M1 >>,
      << Trade("0xC", 1000, 50, 300, "Yes"), Markets.M1 >>,
      << Trade("0xC", 10, 50, 0, "Yes"), Markets.M1 >>,
      << Trade("0xD", 1000, 50, 0, "No"), Markets.M1 >>,
      << Trade("0xB", 1000, 50, 0, "Yes"), Markets.M2 >> }

\* the run began with the entry of 0xB that its later trades push out
Flooded(log) == log # <<>> /\ log[1].size = 1001

NextCoordDeliveries(log) ==
    IF log = <<>>
    THEN CoordDeliveries \cup { << Trade("0xB", 1001, 50, 0, "Yes"), Markets.M1 >> }
    ELSE IF Flooded(log) /\ Len(log) <= 5
    THEN { << Trade("0xB", 1000, 50, 1000 + Len(log), "Yes"), Markets.M1 >> }
    ELSE CoordDeliveries

\* operations so far, the six that push the entry of 0xB out not counted
FreeOps == IF Flooded(arrivals) THEN nOps - 6 ELSE nOps

AnalyzeCoord ==
    /\ FreeOps < MaxCoordOps
    /\ \E d \in NextCoordDeliveries(arrivals) : Analyze(d[1], d[2])

CommandCoord ==
    /\ FreeOps < MaxCoordOps
    /\ arrivals # <<>>
    /\ ~(Flooded(arrivals) /\ Len(arrivals) <= 5)
    /\ Command(<<"/set", "coordinated_min_wallets", "2">>)

NextCoord ==
    \/ ScanStart
    \/ AnalyzeCoord
    \/ CommandCoord

SpecCoord == Init /\ [][NextCoord]_vars

-----------------------------------------------------------------------------
(* analyze_trade statement by statement.  run() starts listen_for_commands in a  *)
(* thread of its own (lines 493-494) and no lock guards the state the two threads *)
(* share, so process_command may run between any two statements of a call.  The  *)
(* call is cut where it writes a store or evaluates a rule; a cut at every block *)
(* of the method is an interleaving the interpreter can produce.                 *)

FrWallet == DictGet(frame.trade, "maker_address", "unknown")
FrSize == DictGet(frame.trade, "size", 0)
FrPrice == DictGet(frame.trade, "price", 0)
FrValue == FrSize * FrPrice
FrTimestamp == DictGet(frame.trade, "timestamp", frame.now)
FrOutcome == DictGet(frame.trade, "outcome", "unknown")
FrQuestion == DictGet(frame.market, "question", "unknown")
FrMarketId == DictGet(frame.market, "condition_id", PyNone)
FrKey == alert_key(FrWallet, frame.market, FrTimestamp)

\* alerts.append(alert) if cond
Collect(cond, alert) == [frame EXCEPT !.alerts = @ \o IfAlert(cond, alert)]

\* lines 222-233: the locals are read off the trade and the ledger is consulted
Enter(trade, market) ==
    LET wallet == DictGet(trade, "maker_address", "unknown")
        key == alert_key(wallet, market, DictGet(trade, "timestamp", clock))
    IN  /\ scanning
        /\ pc = "idle"
        /\ Truthy(DictGet(market, "condition_id", PyNone))
        /\ IF dedup_seen(key, sent_alerts)
           THEN /\ pc' = "idle"
                /\ frame' = <<>>
                /\ last' = [op |-> "analyze", trade |-> trade, market |-> market,
                            now |-> clock, ret |-> <<>>]
           ELSE /\ pc' = "history"
                /\ frame' = [trade |-> trade, market |-> market, now |-> clock,
                             alerts |-> <<>>]
                /\ last' = [op |-> "enter", trade |-> trade, market |-> market,
                            now |-> clock]
        /\ nOps' = nOps + 1
        /\ UNCHANGED <<stores, sent_alerts, config, clock, scanning, arrivals, last_set,
                   cycle, cycles, listen>>

\* lines 235-243
StepHistory ==
    /\ pc = "history"
    /\ wallet_history' = record_history(wallet_history, FrWallet,
                                        history_entry(frame.trade, frame.market, frame.now))
    /\ pc' = "price"
    /\ last' = [op |-> "step", at |-> pc]
    /\ UNCHANGED <<market_volumes, market_prices, wallet_outcomes, sent_alerts, config,
                   clock, scanning, arrivals, last_set, nOps, frame,
                   cycle, cycles, listen>>

\* lines 245-252
StepPrice ==
    /\ pc = "price"
    /\ market_prices' = record_price(market_prices, FrMarketId, FrTimestamp, FrPrice)
    /\ pc' = "fresh"
    /\ last' = [op |-> "step", at |-> pc]
    /\ UNCHANGED <<wallet_history, market_volumes, wallet_outcomes, sent_alerts, config,
                   clock, scanning, arrivals, last_set, nOps, frame,
                   cycle, cycles, listen>>

\* lines 254-265
StepFresh ==
    LET age == get_wallet_age(wallet_history, FrWallet, clock)
    IN  /\ pc = "fresh"
        /\ frame' = Collect(fresh_wallet_fires(age, FrValue, thresholds),
                            [type |-> "FRESH_WALLET_LARGE_BET", wallet |-> FrWallet,
                             age_days |-> age[1], value |-> FrValue,
                             market |-> FrQuestion, key |-> FrKey])
        /\ pc' = "size"
        /\ last' = [op |-> "step", at |-> pc]
        /\ UNCHANGED <<stores, sent_alerts, config, clock, scanning, arrivals, last_set,
                       nOps,
                   cycle, cycles, listen>>

\* lines 267-283
StepSize ==
    LET recent == ListOf(market_volumes, FrMarketId)
    IN  /\ pc = "size"
        /\ frame' = Collect(Truthy(FrMarketId) /\ unusual_size_fires(recent, FrSize, thresholds),
                            [type |-> "UNUSUAL_SIZE", wallet |-> FrWallet, size |-> FrSize,
                             avg_size |-> <<SeqSum(recent), Len(recent)>>,
                             market |-> FrQuestion, key |-> FrKey])
        /\ market_volumes' = record_size(market_volumes, FrMarketId, FrSize)
        /\ pc' = "niche"
        /\ last' = [op |-> "step", at |-> pc]
        /\ UNCHANGED <<wallet_history, market_prices, wallet_outcomes, sent_alerts, config,
                       clock, scanning, arrivals, last_set, nOps,
                   cycle, cycles, listen>>

\* lines 285-298
StepNiche ==
    LET same == same_market_trades(ListOf(wallet_history, FrWallet), frame.market)
        volume == DictGet(frame.market, "volume", 0)
    IN  /\ pc = "niche"
        /\ frame' = Collect(niche_fires(same, volume, thresholds),
                            [type |-> "REPEAT_NICHE_PLAYER", wallet |-> FrWallet,
                             trades_count |-> Len(same), market_volume |-> volume,
                             market |-> FrQuestion, key |-> FrKey])
        /\ pc' = "outcome"
        /\ last' = [op |-> "step", at |-> pc]
        /\ UNCHANGED <<stores, sent_alerts, config, clock, scanning, arrivals, last_set,
                       nOps,
                   cycle, cycles, listen>>

\* lines 300-304
StepOutcome ==
    /\ pc = "outcome"
    /\ wallet_outcomes' = record_outcome(wallet_outcomes, FrWallet, FrMarketId,
                                         FrOutcome, FrPrice)
    /\ pc' = "conviction"
    /\ last' = [op |-> "step", at |-> pc]
    /\ UNCHANGED <<wallet_history, market_volumes, market_prices, sent_alerts, config,
                   clock, scanning, arrivals, last_set, nOps, frame,
                   cycle, cycles, listen>>

\* lines 306-323
StepConviction ==
    LET outcomes == ListOf(wallet_outcomes, FrWallet)
    IN  /\ pc = "conviction"
        /\ frame' = Collect(conviction_fires(outcomes, FrValue, thresholds),
                            [type |-> "HIGH_WIN_RATE_TRADER", wallet |-> FrWallet,
                             conviction_trades |-> Len(high_conviction_trades(outcomes)),
                             total_trades |-> Len(outcomes), current_market |-> FrQuestion,
                             current_price |-> FrPrice, value |-> FrValue, key |-> FrKey])
        /\ pc' = "pre_move"
        /\ last' = [op |-> "step", at |-> pc]
        /\ UNCHANGED <<stores, sent_alerts, config, clock, scanning, arrivals, last_set,
                       nOps,
                   cycle, cycles, listen>>

\* lines 325-348
StepPreMove ==
    LET prices == ListOf(market_prices, FrMarketId)
    IN  /\ pc = "pre_move"
        /\ frame' = Collect(pre_move_fires(FrMarketId, prices, FrTimestamp, FrPrice,
                                           FrValue, thresholds),
                            [type |-> "PRE_MOVE_POSITIONING", wallet |-> FrWallet,
                             value |-> FrValue,
                             old_price |-> last_30_min(prices, FrTimestamp)[1].price,
                             new_price |-> FrPrice, market |-> FrQuestion, key |-> FrKey])
        /\ pc' = "coordinated"
        /\ last' = [op |-> "step", at |-> pc]
        /\ UNCHANGED <<stores, sent_alerts, config, clock, scanning, arrivals, last_set,
                       nOps,
                   cycle, cycles, listen>>

\* lines 350-373
StepCoordinated ==
    LET uniq == unique_wallets(wallet_history, FrWallet, FrMarketId, FrOutcome, FrTimestamp)
    IN  /\ pc = "coordinated"
        /\ frame' = Collect(coordinated_fires(FrMarketId, uniq, FrValue, thresholds),
                            [type |-> "COORDINATED_ENTRY", wallet |-> FrWallet,
                             coordinated_wallets |-> Cardinality(uniq) + 1,
                             outcome |-> FrOutcome, market |-> FrQuestion,
                             value |-> FrValue, key |-> FrKey])
        /\ pc' = "mark"
        /\ last' = [op |-> "step", at |-> pc]
        /\ UNCHANGED <<stores, sent_alerts, config, clock, scanning, arrivals, last_set,
                       nOps,
                   cycle, cycles, listen>>

\* lines 375-378: the keys of the alerts go into the ledger and the list is returned
StepReturn ==
    /\ pc = "mark"
    /\ sent_alerts' = mark_sent(sent_alerts, frame.alerts)
    /\ last' = [op |-> "analyze", trade |-> frame.trade, market |-> frame.market,
                now |-> frame.now, ret |-> frame.alerts]
    /\ arrivals' = Append(arrivals,
                          [market_id |-> FrMarketId, wallet |-> FrWallet, size |-> FrSize,
                           price |-> FrPrice, timestamp |-> FrTimestamp,
                           outcome |-> FrOutcome,
                           types |-> { frame.alerts[i].type : i \in DOMAIN frame.alerts }])
    /\ pc' = "idle"
    /\ frame' = <<>>
    /\ UNCHANGED <<stores, config, clock, scanning, last_set, nOps,
                   cycle, cycles, listen>>

-----------------------------------------------------------------------------
(* SpecThreads: the scan thread inside analyze_trade, statement by statement,    *)
(* and the command thread handling /status, /stats and /set next to it           *)

MaxThreadOps == 3

ThreadDeliveries ==
    { << Trade("0xA", 5000, 90, 0, "Yes"), Markets.M1 >>,
      << Trade("0xB", 5000, 90, 200, "Yes"), Markets.M1 >>,
      << Trade("0xB", 10, 50, 200, "Yes"), Markets.M2 >> }

ThreadCommands ==
    { <<"/status">>, <<"/stats">>, <<"/set", "coordinated_min_wallets", "1">> }

EnterAny ==
    /\ nOps < MaxThreadOps
    /\ \E d \in ThreadDeliveries : Enter(d[1], d[2])

CommandThread ==
    /\ nOps < MaxThreadOps
    /\ \E text \in ThreadCommands : Command(text)

NextThreads ==
    \/ ScanStart
    \/ EnterAny
    \/ StepHistory
    \/ StepPrice
    \/ StepFresh
    \/ StepSize
    \/ StepNiche
    \/ StepOutcome
    \/ StepConviction
    \/ StepPreMove
    \/ StepCoordinated
    \/ StepReturn
    \/ CommandThread

SpecThreads == Init /\ [][NextThreads]_vars

-----------------------------------------------------------------------------
(* run() and scan_markets, statement by statement: the main thread calls         *)
(* scan_markets, sleeps scan_interval seconds and calls it again (lines 496-506). *)
(* What a fetch returns is the provider's choice: a list, an exception inside     *)
(* requests.get or response.json() (the except clauses of lines 197-199 and       *)
(* 208-210 then return []), or an error object, which response.json() parses and  *)
(* the method returns as it is (no status code is looked at).                     *)

\* a Python list
PyList(items) == [kind |-> "list", items |-> items]

\* a Python dict that is no list of markets or trades: {"error": ...}
ErrorPayload == [kind |-> "dict", keys |-> << [pystr |-> "error"] >>]

\* for x in v: the elements of a list, the keys of a dict
PyIter(v) == IF v.kind = "list" THEN v.items ELSE v.keys

\* x.get(...) raises AttributeError when x is a str
IsStr(x) == "pystr" \in DOMAIN x

\* new_alerts with the batch put in front of it instead of behind
extend_front(new_alerts, alerts) == alerts \o new_alerts

\* new_alerts.extend(alerts), line 464
extend(new_alerts, alerts) == new_alerts \o alerts

\* the main thread ready to call scan_markets whatever it is doing
may_call_scan_timer(at) == TRUE

\* the main thread stands at line 498, before the call of scan_markets
may_call_scan(at) == at = "call"

\* scan_skipped with the pause flag ignored
scan_skipped_never(paused) == FALSE

\* lines 447-448: if self.is_paused: return []
scan_skipped(paused) == paused

IdleCycle ==
    [pc |-> "call", markets |-> <<>>, mi |-> 0, trades |-> <<>>, ti |-> 0,
     new_alerts |-> <<>>, di |-> 0, wake_at |-> 0]

\* the history entry of a scan cycle
NewCycle(how) ==
    [started |-> clock, paused_at_start |-> is_paused, how |-> how, ended |-> clock,
     markets_failed |-> FALSE,
     markets |-> <<>>, fetched |-> <<>>,
     analysed |-> <<>>, detected |-> <<>>, sent |-> <<>>]

\* the history with the entry of the latest cycle changed by rec
WithCur(rec) == [cycles EXCEPT ![Len(cycles)] = rec]

Cur == cycles[Len(cycles)]

\* an exception leaves scan_markets: run() catches it and sleeps (lines 504-506)
RaiseToRun(note) ==
    /\ cycle' = [IdleCycle EXCEPT !.pc = "sleep", !.wake_at = clock + scan_interval]
    /\ cycles' = WithCur([Cur EXCEPT !.how = "error", !.ended = clock])
    /\ scanning' = FALSE
    /\ last' = [op |-> "scan_error", note |-> note]

\* lines 498, 447-450: scan_markets is called; a paused bot returns [] at once and
\* run() goes to sleep
CycleStart ==
    /\ may_call_scan(cycle.pc)
    /\ IF scan_skipped(is_paused)
       THEN /\ cycle' = [IdleCycle EXCEPT !.pc = "sleep",
                                          !.wake_at = clock + scan_interval]
            /\ cycles' = Append(cycles, NewCycle("paused"))
            /\ scanning' = FALSE
            /\ last' = [op |-> "scan_paused"]
       ELSE /\ cycle' = [IdleCycle EXCEPT !.pc = "get_markets"]
            /\ cycles' = Append(cycles, NewCycle("open"))
            /\ scanning' = TRUE
            /\ last' = [op |-> "scan_start"]
    /\ UNCHANGED <<stores, sent_alerts, config, clock, arrivals, last_set, nOps, pc, frame, listen>>

\* lines 452-453: markets = self.get_markets(limit=50); new_alerts = []
GetMarkets(results) ==
    /\ cycle.pc = "get_markets"
    /\ \E res \in results :
          /\ cycle' = [cycle EXCEPT !.pc = "market", !.markets = PyIter(res.value),
                                    !.mi = 1]
          /\ cycles' = WithCur([Cur EXCEPT !.markets_failed = res.failed,
                                           !.markets = PyIter(res.value)])
          /\ last' = [op |-> "get_markets", result |-> res]
    /\ UNCHANGED <<stores, sent_alerts, config, clock, scanning, arrivals, last_set, nOps,
                   pc, frame, listen>>

\* lines 455-460: the next market of the list: the list is over, the market has no
\* condition_id, or its trades are fetched.  fetch[id] is what
\* get_market_trades may return: a list (empty after a caught exception) or an
\* error object
MarketStep(fetch) ==
    /\ cycle.pc = "market"
    /\ IF cycle.mi > Len(cycle.markets)
       THEN /\ cycle' = [cycle EXCEPT !.pc = "deliver", !.di = 1]
            /\ last' = [op |-> "markets_done"]
            /\ UNCHANGED <<cycles, scanning>>
       ELSE LET market == cycle.markets[cycle.mi]
            IN  IF IsStr(market)
                THEN RaiseToRun("market.get")
                ELSE IF ~Truthy(DictGet(market, "condition_id", PyNone))
                THEN /\ cycle' = [cycle EXCEPT !.mi = @ + 1]
                     /\ last' = [op |-> "skip_market", market |-> market]
                     /\ UNCHANGED <<cycles, scanning>>
                ELSE \E res \in fetch[market.condition_id] :
                        /\ cycle' = [cycle EXCEPT !.pc = "trade",
                                                  !.trades = PyIter(res.value), !.ti = 1]
                        /\ cycles' = WithCur([Cur EXCEPT !.fetched =
                                         Append(@, [mi |-> cycle.mi,
                                                    market_id |-> market.condition_id,
                                                    failed |-> res.failed,
                                                    value |-> res.value])])
                        /\ last' = [op |-> "get_market_trades", market |-> market,
                                    result |-> res]
                        /\ UNCHANGED scanning
    /\ UNCHANGED <<stores, sent_alerts, config, clock, arrivals, last_set, nOps, pc, frame, listen>>

\* lines 462-464: the next trade of the market goes through analyze_trade and its
\* alerts are added to new_alerts; after the last trade the next market is taken
TradeStep ==
    /\ cycle.pc = "trade"
    /\ IF cycle.ti > Len(cycle.trades)
       THEN /\ cycle' = [cycle EXCEPT !.pc = "market", !.mi = @ + 1]
            /\ last' = [op |-> "trades_done"]
            /\ UNCHANGED <<stores, sent_alerts, arrivals, nOps, cycles, scanning>>
       ELSE LET trade == cycle.trades[cycle.ti]
                market == cycle.markets[cycle.mi]
            IN  IF IsStr(trade)
                THEN /\ RaiseToRun("trade.get")
                     /\ UNCHANGED <<stores, sent_alerts, arrivals, nOps>>
                ELSE LET r == analyze_trade(wallet_history, market_volumes, market_prices,
                                            wallet_outcomes, sent_alerts, thresholds,
                                            trade, market, clock)
                     IN  /\ wallet_history' = r.wallet_history
                         /\ market_volumes' = r.market_volumes
                         /\ market_prices' = r.market_prices
                         /\ wallet_outcomes' = r.wallet_outcomes
                         /\ sent_alerts' = r.sent_alerts
                         /\ cycle' = [cycle EXCEPT !.ti = @ + 1,
                                         !.new_alerts = extend(@, r.alerts)]
                         /\ cycles' = WithCur([Cur EXCEPT
                                         !.analysed = Append(@, <<cycle.mi, cycle.ti>>),
                                         !.detected = @ \o r.alerts])
                         /\ last' = [op |-> "analyze", trade |-> trade, market |-> market,
                                     now |-> clock, ret |-> r.alerts]
                         /\ arrivals' =
                              IF r.analysed
                              THEN Append(arrivals,
                                     [market_id |-> market.condition_id,
                                      wallet    |-> DictGet(trade, "maker_address", "unknown"),
                                      size      |-> DictGet(trade, "size", 0),
                                      price     |-> DictGet(trade, "price", 0),
                                      timestamp |-> DictGet(trade, "timestamp", clock),
                                      outcome   |-> DictGet(trade, "outcome", "unknown"),
                                      types     |-> { r.alerts[i].type : i \in DOMAIN r.alerts }])
                              ELSE arrivals
                         /\ nOps' = nOps + 1
                         /\ UNCHANGED scanning
    /\ UNCHANGED <<config, clock, last_set, pc, frame, listen>>

\* lines 466-473: the alerts of new_alerts are sent one by one, send_telegram
\* catching whatever requests.post raises (lines 59-64); then scan_markets returns
\* and run() goes to sleep (line 499)
DeliverStep ==
    /\ cycle.pc = "deliver"
    /\ IF cycle.di > Len(cycle.new_alerts)
       THEN /\ cycle' = [IdleCycle EXCEPT !.pc = "sleep",
                                          !.wake_at = clock + scan_interval]
            /\ cycles' = WithCur([Cur EXCEPT !.how = "normal", !.ended = clock])
            /\ scanning' = FALSE
            /\ last' = [op |-> "scan_end"]
       ELSE \E ok \in BOOLEAN :
               /\ cycle' = [cycle EXCEPT !.di = @ + 1]
               /\ cycles' = WithCur([Cur EXCEPT !.sent =
                                Append(@, [alert |-> cycle.new_alerts[cycle.di],
                                           ok |-> ok])])
               /\ last' = [op |-> "send_telegram", alert |-> cycle.new_alerts[cycle.di],
                           ok |-> ok]
               /\ UNCHANGED scanning
    /\ UNCHANGED <<stores, sent_alerts, config, clock, arrivals, last_set, nOps, pc, frame, listen>>

\* time.sleep(self.scan_interval) is over
Wake ==
    /\ cycle.pc = "sleep"
    /\ clock >= cycle.wake_at
    /\ cycle' = [cycle EXCEPT !.pc = "call"]
    /\ last' = [op |-> "wake"]
    /\ UNCHANGED <<stores, sent_alerts, config, clock, scanning, arrivals, last_set, nOps,
                   pc, frame, cycles, listen>>

\* seconds go by
Elapse(seconds) ==
    /\ clock' = clock + seconds
    /\ last' = [op |-> "tick"]
    /\ UNCHANGED <<stores, sent_alerts, config, scanning, arrivals, last_set, nOps, aux>>

-----------------------------------------------------------------------------
(* SpecCycle: one scan cycle after the other over a provider that returns three  *)
(* markets, whose fetches succeed or fail, with deliveries that succeed or fail  *)

MaxCycles == 1
MaxElapses == 1

\* one step of the clock: 100 seconds, more than the scan interval of 60
ElapseSeconds == 100

\* what get_markets returns: a list, [] after an exception, an error object
CycleMarketResults ==
    { [value |-> PyList(<< Markets.M1, Markets.M0, Markets.M2 >>), failed |-> FALSE],
      [value |-> PyList(<<>>), failed |-> TRUE],
      [value |-> ErrorPayload, failed |-> TRUE] }

\* what get_market_trades returns for each market: bets of $4500 by wallets new to
\* the bot, which raise alerts; [] after an exception; an error object
CycleTradeResults ==
    [ M1 |-> { [value |-> PyList(<< Trade("0xA", 5000, 90, 0, "Yes"),
                                    Trade("0xB", 5000, 90, 200, "Yes") >>),
                failed |-> FALSE],
               [value |-> PyList(<<>>), failed |-> TRUE],
               [value |-> ErrorPayload, failed |-> TRUE] },
      M2 |-> { [value |-> PyList(<< Trade("0xD", 5000, 90, 0, "No") >>), failed |-> FALSE],
               [value |-> PyList(<<>>), failed |-> TRUE] } ]

CycleStartBounded == Len(cycles) < MaxCycles /\ CycleStart

GetMarketsCycle == GetMarkets(CycleMarketResults)

MarketStepCycle == MarketStep(CycleTradeResults)

\* the clock advances while the main thread waits: for the markets or asleep
ElapseCycle ==
    /\ clock < StartClock + MaxElapses * ElapseSeconds
    /\ cycle.pc \in {"get_markets", "sleep"}
    /\ Elapse(ElapseSeconds)

NextCycle ==
    \/ CycleStartBounded
    \/ GetMarketsCycle
    \/ MarketStepCycle
    \/ TradeStep
    \/ DeliverStep
    \/ Wake
    \/ ElapseCycle

SpecCycle == Init /\ [][NextCycle]_vars

-----------------------------------------------------------------------------
(* SpecRun: the loop of run() over a provider that returns one market with two   *)
(* trades, or an error object for the market list, /pause and /resume arriving   *)
(* at any moment and the clock advancing in steps longer than the scan interval  *)

MaxRunCycles == 2
MaxRunCmds == 2
MaxRunElapses == 2

RunMarketResults ==
    { [value |-> PyList(<< Markets.M1 >>), failed |-> FALSE],
      [value |-> ErrorPayload, failed |-> TRUE] }

RunTradeResults ==
    [ M1 |-> { [value |-> PyList(<< Trade("0xA", 5000, 90, 0, "Yes"),
                                    Trade("0xB", 10, 50, 200, "Yes") >>),
                failed |-> FALSE] } ]

RECURSIVE TotalAnalysed(_)
TotalAnalysed(h) == IF h = <<>> THEN 0 ELSE Len(Head(h).analysed) + TotalAnalysed(Tail(h))

CycleStartRun == Len(cycles) < MaxRunCycles /\ CycleStart

GetMarketsRun == GetMarkets(RunMarketResults)

MarketStepRun == MarketStep(RunTradeResults)

\* the commands so far are the operations that were no analyze_trade call
CommandRun ==
    /\ nOps - TotalAnalysed(cycles) < MaxRunCmds
    /\ \E text \in { <<"/pause">>, <<"/resume">> } : Command(text)

\* the clock advances while the main thread waits or sends
ElapseRun ==
    /\ clock < StartClock + MaxRunElapses * ElapseSeconds
    /\ cycle.pc \in {"get_markets", "deliver", "sleep"}
    /\ Elapse(ElapseSeconds)

NextRun ==
    \/ CycleStartRun
    \/ GetMarketsRun
    \/ MarketStepRun
    \/ TradeStep
    \/ DeliverStep
    \/ Wake
    \/ ElapseRun
    \/ CommandRun

SpecRun == Init /\ [][NextRun]_vars

-----------------------------------------------------------------------------
(* SpecRules: the stores filled until every rule can fire.  Wallet 0xA trades    *)
(* twice on M2 and nine times on M1 (both markets carry the question Q1), then   *)
(* 0xB and 0xC enter M1, so that M1 holds eleven sizes and prices; after that    *)
(* trades are delivered that fire all six rules, some of them or none, among     *)
(* them a trade dated before every stored one and one dated 1800 seconds after   *)
(* the first, and /set changes a threshold.                                      *)

MaxRuleOps == 2

\* the deliveries of the filling phase, one set of alternatives per call
RuleWarmUp ==
    << { << Trade("0xA", 10, 90, 0, "Yes"), Markets.M2 >> },
       { << Trade("0xA", 10, 90, 10, "Yes"), Markets.M2 >> },
       { << Trade("0xA", 10, 90, 20, "Yes"), Markets.M1 >> } >>
    \o [ k \in 1..8 |-> { << Trade("0xA", 10, 85, 20 + 10 * k, "Yes"), Markets.M1 >> } ]
    \o << { << Trade("0xB", 10, 85, 110, "Yes"), Markets.M1 >>,
            << Trade("0xB", 5000, 50, 110, "Yes"), Markets.M1 >> },
          { << Trade("0xC", 10, 85, 120, "Yes"), Markets.M1 >>,
            << Trade("0xC", 5000, 50, 120, "Yes"), Markets.M1 >> } >>

RuleDeliveries ==
    { << Trade("0xA", 5000, 50, 130, "Yes"), Markets.M1 >>,
      << Trade("0xA", 5000, 50, 130, "Yes"), Markets.M2 >>,
      << Trade("0xE", 10, 50, 5, "Yes"), Markets.M1 >>,
      << Trade("0xE", 5000, 60, 140, "Yes"), Markets.M1 >>,
      << Trade("0xA", 5000, 72, 1820, "Yes"), Markets.M1 >>,
      << Trade("0xD", 5000, 50, 130, "No"), Markets.M1 >> }

RuleCommands ==
    { <<"/set", "niche_volume_max", "5000">>,
      <<"/set", "pre_move_min_value", "5000">> }

WarmingUp == nOps < Len(RuleWarmUp)

AnalyzeRules ==
    /\ nOps < Len(RuleWarmUp) + MaxRuleOps
    /\ \E d \in IF WarmingUp THEN RuleWarmUp[nOps + 1] ELSE RuleDeliveries :
          Analyze(d[1], d[2])

CommandRules ==
    /\ ~WarmingUp
    /\ nOps < Len(RuleWarmUp) + MaxRuleOps
    /\ \E text \in RuleCommands : Command(text)

NextRules ==
    \/ ScanStart
    \/ AnalyzeRules
    \/ CommandRules

SpecRules == Init /\ [][NextRules]_vars

-----------------------------------------------------------------------------
(* listen_for_commands and get_updates, statement by statement.  An update is    *)
(* the dict Telegram sends: update_id, and message (with chat.id and text) when   *)
(* the update is a message.                                                      *)

\* CHAT_ID, line 517
CHAT_ID == "2102682028"

\* message.get('chat', {}).get('id'): <<>> is None, <<c>> the id c
chat_id_of(message) ==
    IF "chat" \in DOMAIN message /\ "id" \in DOMAIN message.chat
    THEN << message.chat.id >>
    ELSE <<>>

\* authorized letting every message through
authorized_any(update, chat_id) == "message" \in DOMAIN update

\* lines 181-183: 'message' in update and its chat id == int(self.chat_id)
authorized(update, chat_id) ==
    /\ "message" \in DOMAIN update
    /\ chat_id_of(update.message) = << int(chat_id) >>

\* what getUpdates answers for params offset: the updates not older than offset
pending(box, offset) ==
    LET From(u) == u.update_id >= offset
    IN  SelectSeq(box, From)

\* somebody sends the bot an update; Telegram numbers the updates consecutively
NewUpdate(contents) ==
    /\ \E c \in contents :
          inbox' = Append(inbox, [update_id |-> Len(inbox) + 1] @@ c)
    /\ last' = [op |-> "new_update"]
    /\ UNCHANGED <<stores, sent_alerts, config, clock, scanning, arrivals, last_set, nOps,
                   pc, frame, cycle, cycles, last_update_id, updates, seen>>

\* line 178 and get_updates, lines 66-75: the pending updates, or [] when the
\* request raises
GetUpdates ==
    /\ updates = <<>>
    /\ \E result \in { pending(inbox, last_update_id + 1), <<>> } :
          /\ updates' = result
          /\ last' = [op |-> "get_updates", offset |-> last_update_id + 1,
                      result |-> [i \in DOMAIN result |-> result[i].update_id]]
    /\ UNCHANGED <<stores, sent_alerts, config, clock, scanning, arrivals, last_set, nOps,
                   pc, frame, cycle, cycles, last_update_id, inbox, seen>>

\* lines 179-184: the next update of the list: its id is recorded, and its message
\* goes through process_command when it comes from the configured chat
HandleUpdate ==
    /\ updates # <<>>
    /\ LET update == Head(updates)
           text == DictGet(DictGet(update, "message", EmptyDict), "text", <<>>)
           r == process_command(BotState, text)
           pass == authorized(update, CHAT_ID)
       IN  /\ last_update_id' = update.update_id
           /\ updates' = IF pass /\ r.reply.kind = "ValueError"
                         THEN <<>>      \* the exception ends the for loop (line 186)
                         ELSE Tail(updates)
           /\ seen' = Append(seen, [update_id |-> update.update_id, passed |-> pass])
           /\ IF pass
              THEN /\ is_paused' = r.st.is_paused
                   /\ scan_interval' = r.st.scan_interval
                   /\ thresholds' = r.st.thresholds
                   /\ last' = [op |-> "command", text |-> text, reply |-> r.reply,
                               update |-> update]
                   /\ last_set' = IF r.reply.kind = "set_ok"
                                  THEN <<text[2], FloatTable[text[3]]>> ELSE last_set
                   /\ nOps' = nOps + 1
              ELSE /\ last' = [op |-> "skip_update", update |-> update]
                   /\ UNCHANGED <<config, last_set, nOps>>
    /\ UNCHANGED <<stores, sent_alerts, clock, scanning, arrivals, pc, frame, cycle,
                   cycles, inbox>>

-----------------------------------------------------------------------------
(* SpecListen: updates from the configured chat, from another chat, without a    *)
(* chat and without a message, fetched and handled by the command thread         *)

MaxUpdates == 3

\* a message update from chat c with the words of its text
MessageFrom(c, text) == [message |-> [chat |-> [id |-> c], text |-> text]]

UpdateContents ==
    { MessageFrom(2102682028, <<"/pause">>),
      MessageFrom(2102682028, <<"/interval", "30">>),
      MessageFrom(7, <<"/pause">>),
      MessageFrom(7, <<"/set", "fresh_wallet_min_value", "1">>),
      MessageFrom(7, <<"/interval", "30">>),
      [message |-> [text |-> <<"/pause">>]],
      [edited_message |-> [chat |-> [id |-> 2102682028], text |-> <<"/pause">>]] }

NewUpdateBounded == Len(inbox) < MaxUpdates /\ NewUpdate(UpdateContents)

NextListen ==
    \/ NewUpdateBounded
    \/ GetUpdates
    \/ HandleUpdate

SpecListen == Init /\ [][NextListen]_vars

-----------------------------------------------------------------------------
(* SpecInterval: '/interval' messages of the configured chat, well formed and     *)
(* not, going through the command thread                                          *)

MaxIntervalUpdates == 2

IntervalTexts ==
    { <<"/interval", "10">>, <<"/interval", "600">>, <<"/interval", "30">>,
      <<"/interval", "0030">>, <<"/interval", ArabicIndicThirty>>,
      <<"/intervals", "30">>,
      <<"/interval", "9">>, <<"/interval", "601">>, <<"/interval", "0">>,
      <<"/interval", "5000">>,
      <<"/interval", "abc">>, <<"/interval", "-30">>, <<"/interval", "30.5">>,
      <<"/interval", SuperscriptTwo>>,
      <<"/interval">>, <<"/interval", "30", "600">>,
      <<"/pause">>, <<"/set", "fresh_wallet_min_value", "30">> }

\* every one of them is sent from the configured chat
NewUpdateInterval ==
    /\ Len(inbox) < MaxIntervalUpdates
    /\ NewUpdate({ MessageFrom(2102682028, text) : text \in IntervalTexts })

NextInterval ==
    \/ NewUpdateInterval
    \/ GetUpdates
    \/ HandleUpdate

SpecInterval == Init /\ [][NextInterval]_vars

-----------------------------------------------------------------------------
(* What the claims speak of *)

\* the fields analyze_trade reads of the call recorded in op
OpWallet(op) == DictGet(op.trade, "maker_address", "unknown")
OpTimestamp(op) == DictGet(op.trade, "timestamp", op.now)
OpSize(op) == DictGet(op.trade, "size", 0)
OpPrice(op) == DictGet(op.trade, "price", 0)
OpValue(op) == OpSize(op) * OpPrice(op)
OpOutcome(op) == DictGet(op.trade, "outcome", "unknown")
OpMarketId(op) == DictGet(op.market, "condition_id", PyNone)
OpKey(op) == alert_key(OpWallet(op), op.market, OpTimestamp(op))

HasAlert(ret, type) == \E i \in DOMAIN ret : ret[i].type = type

LensOf(d) == [k \in DOMAIN d |-> Len(d[k])]
StoreLens == << LensOf(wallet_history), LensOf(wallet_outcomes),
                LensOf(market_volumes), LensOf(market_prices) >>

\* C1: calling analyze_trade twice in a row with the identical (trade, market) pair
\* returns alerts only on the first call, and the second call leaves the lengths of
\* the four rolling stores unchanged, whether or not the first call alerted.
C1_DuplicateIsNoOp ==
    [][ ( /\ last.op = "analyze"
          /\ last'.op = "analyze"
          /\ "timestamp" \in DOMAIN last.trade
          /\ last'.trade = last.trade
          /\ last'.market = last.market )
        => ( last'.ret = <<>> /\ StoreLens' = StoreLens ) ]_vars

\* C2: once the ledger holds a dedup key, every later analyze_trade call with that
\* key returns no alert and changes neither the four rolling stores nor the ledger.
C2_DedupSuppresses ==
    [][ ( last'.op = "analyze" /\ OpKey(last') \in sent_alerts )
        => ( last'.ret = <<>> /\ UNCHANGED <<stores, sent_alerts>> ) ]_vars

\* C2 witness: a key of the ledger was delivered again, after a threshold change
\* and two other operations, and the call returned nothing
C2_Witness ==
    /\ last.op = "analyze"
    /\ last.ret = <<>>
    /\ OpKey(last) \in sent_alerts
    /\ last_set # <<>>
    /\ nOps = 3

\* C4: every analyze_trade call whose key is not in the ledger appends exactly one
\* entry for the trade to the wallet's trade record, the wallet's outcome record, the
\* market's size window and the market's price window (the windows before their
\* eviction of the oldest entry), whatever rules fire, and touches no other list.
C4_AppendsToAllFour ==
    [][ ( last'.op = "analyze" /\ OpKey(last') \notin sent_alerts )
        => LET op == last'
               w == OpWallet(op)
               m == OpMarketId(op)
               sizes == Append(ListOf(market_volumes, m), OpSize(op))
               prices == Append(ListOf(market_prices, m),
                                [timestamp |-> OpTimestamp(op), price |-> OpPrice(op)])
           IN  /\ DOMAIN wallet_history' = DOMAIN wallet_history \cup {w}
               /\ DOMAIN wallet_outcomes' = DOMAIN wallet_outcomes \cup {w}
               /\ DOMAIN market_volumes' = DOMAIN market_volumes \cup {m}
               /\ DOMAIN market_prices' = DOMAIN market_prices \cup {m}
               /\ wallet_history'[w] =
                     Append(ListOf(wallet_history, w),
                            [timestamp |-> OpTimestamp(op), market |-> op.market.question,
                             market_id |-> m, size |-> OpSize(op), value |-> OpValue(op),
                             price |-> OpPrice(op), outcome |-> OpOutcome(op)])
               /\ wallet_outcomes'[w] =
                     Append(ListOf(wallet_outcomes, w),
                            [market_id |-> m, outcome |-> OpOutcome(op),
                             price |-> OpPrice(op)])
               /\ market_volumes'[m] \in {sizes, Tail(sizes)}
               /\ market_prices'[m] \in {prices, Tail(prices)}
               /\ \A x \in DOMAIN wallet_history \ {w} :
                     wallet_history'[x] = wallet_history[x]
               /\ \A x \in DOMAIN wallet_outcomes \ {w} :
                     wallet_outcomes'[x] = wallet_outcomes[x]
               /\ \A x \in DOMAIN market_volumes \ {m} :
                     market_volumes'[x] = market_volumes[x]
               /\ \A x \in DOMAIN market_prices \ {m} :
                     market_prices'[x] = market_prices[x] ]_vars

\* C4 witness: a call that fired no rule and still left its trade as the newest entry
\* of a store that already held an earlier one
C4_Witness ==
    /\ last.op = "analyze"
    /\ last.ret = <<>>
    /\ OpKey(last) \notin sent_alerts
    /\ Len(wallet_history[OpWallet(last)]) = 2
    /\ Len(market_volumes[OpMarketId(last)]) = 2
    /\ sent_alerts # {}

\* C5 as claimed: the first trade of a wallet without history, with
\* value > fresh_wallet_min_value, yields a FRESH_WALLET_LARGE_BET alert whatever
\* timestamp it carries.
C5_FirstTradeAlwaysFresh ==
    [][ ( /\ last'.op = "analyze"
          /\ OpWallet(last') \notin DOMAIN wallet_history
          /\ OpValue(last') > thresholds.fresh_wallet_min_value )
        => HasAlert(last'.ret, "FRESH_WALLET_LARGE_BET") ]_vars

\* C5 amended: the first trade of a wallet without history, its key not in the
\* ledger and its value > fresh_wallet_min_value, yields a FRESH_WALLET_LARGE_BET
\* alert exactly when the whole days from the trade's timestamp to the time of the
\* call are fewer than fresh_wallet_days.
C5_FirstTradeFreshByTimestamp ==
    [][ ( /\ last'.op = "analyze"
          /\ OpWallet(last') \notin DOMAIN wallet_history
          /\ OpKey(last') \notin sent_alerts
          /\ OpValue(last') > thresholds.fresh_wallet_min_value )
        => ( HasAlert(last'.ret, "FRESH_WALLET_LARGE_BET")
             <=> ((last'.now - OpTimestamp(last')) \div 86400) * 100
                    < thresholds.fresh_wallet_days ) ]_vars

\* C5 witness: a wallet's first trade, eight days old when analysed, raised the alert
\* under fresh_wallet_days = 9
C5_Witness ==
    /\ last.op = "analyze"
    /\ Len(wallet_history[OpWallet(last)]) = 1
    /\ last.now - OpTimestamp(last) >= 8 * 86400
    /\ HasAlert(last.ret, "FRESH_WALLET_LARGE_BET")

\* C8: an accepted /set takes effect at once and resets nothing: the threshold holds
\* the value of the last accepted /set for it, /set leaves the four stores and the
\* ledger as they were, and after /set fresh_wallet_min_value v an analysed trade
\* raises the fresh-wallet alert exactly when its value > v (and the wallet is fresh).
C8_SetTakesEffect ==
    [][ /\ ( last_set' # <<>> /\ last'.op = "command" /\ last'.reply.kind = "set_ok" )
           => ( /\ thresholds'[last_set'[1]] = last_set'[2]
                /\ UNCHANGED <<stores, sent_alerts>> )
        /\ ( /\ last'.op = "analyze"
             /\ last_set # <<>>
             /\ last_set[1] = "fresh_wallet_min_value"
             /\ OpKey(last') \notin sent_alerts )
           => ( HasAlert(last'.ret, "FRESH_WALLET_LARGE_BET")
                <=> ( /\ OpValue(last') > last_set[2]
                      /\ ( (last'.now - wallet_history'[OpWallet(last')][1].timestamp)
                              \div 86400 ) * 100 < thresholds.fresh_wallet_days ) )
      ]_vars

\* C8 witness: after /set fresh_wallet_min_value 1 a $5 trade, below the default
\* $1000, raised the alert, the stores of the earlier trades still in place
C8_Witness ==
    /\ last.op = "analyze"
    /\ last_set = <<"fresh_wallet_min_value", 100>>
    /\ OpValue(last) <= DefaultThresholds.fresh_wallet_min_value
    /\ HasAlert(last.ret, "FRESH_WALLET_LARGE_BET")
    /\ Len(wallet_history[OpWallet(last)]) = 2

\* C9: a /set naming an unknown parameter, carrying a value that is no number, or
\* with another number of words than three leaves the thresholds as they were; no
\* step adds or removes a threshold name, so the names are those of construction.
C9_RejectedSetKeepsThresholds ==
    /\ [](DOMAIN thresholds =
            { "fresh_wallet_days", "fresh_wallet_min_value", "unusual_size_multiplier",
              "niche_volume_max", "niche_trades_min", "win_rate_conviction_min",
              "win_rate_min_value", "pre_move_min_value", "pre_move_change_pct",
              "coordinated_min_value", "coordinated_min_wallets" })
    /\ [][ ( /\ last'.op = "command"
             /\ StartsWith(last'.text, "/set")
             /\ \/ Len(last'.text) # 3
                \/ last'.text[2] \notin DOMAIN thresholds
                \/ ~IsFloat(last'.text[3]) )
           => thresholds' = thresholds ]_vars

\* C9 witness: a /set of an unknown parameter was answered, the thresholds still
\* carrying the value an earlier /set gave them
C9_Witness ==
    /\ last.op = "command"
    /\ last.text = <<"/set", "bogus", "1">>
    /\ last.reply.kind = "unknown_parameter"
    /\ last_set # <<>>
    /\ thresholds # DefaultThresholds

\* C10: no command changes the four rolling stores or the ledger, and no
\* analyze_trade call changes the thresholds, the pause flag or the scan interval.
C10_WriterSeparation ==
    [][ /\ last'.op = "command" => UNCHANGED <<stores, sent_alerts>>
        /\ last'.op = "analyze" => UNCHANGED config ]_vars

\* C10 witness: /pause was handled with a trade recorded and an alert in the ledger
C10_Witness ==
    /\ last.op = "command"
    /\ last.text = <<"/pause">>
    /\ is_paused
    /\ sent_alerts # {}
    /\ wallet_history # EmptyDict

\* the sizes, and the {timestamp, price} pairs, of the trades analysed on market m,
\* in arrival order
ArrivedSizes(log, m) ==
    LET On(a) == a.market_id = m
        sel == SelectSeq(log, On)
    IN  [i \in 1..Len(sel) |-> sel[i].size]

ArrivedPrices(log, m) ==
    LET On(a) == a.market_id = m
        sel == SelectSeq(log, On)
    IN  [i \in 1..Len(sel) |-> [timestamp |-> sel[i].timestamp, price |-> sel[i].price]]

\* C3: every size window holds at most 100 entries and every price window at most
\* 200; after N analysed trades on a market its size window is the last min(N, 100)
\* sizes in arrival order and its price window the last min(N, 200)
\* {timestamp, price} pairs in arrival order.
C3_WindowsHoldMostRecent ==
    \A m \in DOMAIN market_volumes \cup DOMAIN market_prices
             \cup { arrivals[i].market_id : i \in DOMAIN arrivals } :
        /\ Len(ListOf(market_volumes, m)) <= 100
        /\ Len(ListOf(market_prices, m)) <= 200
        /\ ListOf(market_volumes, m) = LastN(ArrivedSizes(arrivals, m), 100)
        /\ ListOf(market_prices, m) = LastN(ArrivedPrices(arrivals, m), 200)

\* C3 witness: more than 200 trades were analysed on M2, both windows are full and
\* the oldest entries are gone
C3_Witness ==
    /\ Len(arrivals) > 200
    /\ \A i \in DOMAIN arrivals : arrivals[i].market_id = "M2"
    /\ Len(market_volumes["M2"]) = 100
    /\ Len(market_prices["M2"]) = 200
    /\ market_volumes["M2"][1] = arrivals[Len(arrivals) - 99].size
    /\ market_prices["M2"][1].timestamp = arrivals[Len(arrivals) - 199].timestamp
    /\ sent_alerts # {}

\* the Unusual Size condition of the claim on the window `before` of the market as
\* it is before the call: more than 10 entries, and size > mean(before) x multiplier
UnusualSizeCase(op, before, multiplier) ==
    /\ Len(before) > 10
    /\ OpSize(op) * Len(before) * 100 > SeqSum(before) * multiplier

\* C6 as claimed: an analyze_trade call returns an UNUSUAL_SIZE alert if and only if
\* the market's size window before the call has more than 10 entries and the trade's
\* size > mean(that window) x unusual_size_multiplier.
C6_UnusualSizeEveryCall ==
    [][ last'.op = "analyze"
        => ( HasAlert(last'.ret, "UNUSUAL_SIZE")
             <=> UnusualSizeCase(last', ListOf(market_volumes, OpMarketId(last')),
                                 thresholds.unusual_size_multiplier) ) ]_vars

\* C6 amended: the same, for the calls whose key is not in the ledger (a call with a
\* key of the ledger returns nothing); with exactly 10 sizes recorded the next trade
\* raises no UNUSUAL_SIZE alert whatever its size.
C6_UnusualSizeAnalysedCall ==
    [][ ( last'.op = "analyze" /\ OpKey(last') \notin sent_alerts )
        => LET before == ListOf(market_volumes, OpMarketId(last'))
           IN  /\ HasAlert(last'.ret, "UNUSUAL_SIZE")
                    <=> UnusualSizeCase(last', before, thresholds.unusual_size_multiplier)
               /\ Len(before) = 10 => ~HasAlert(last'.ret, "UNUSUAL_SIZE") ]_vars

\* C6 witness: a trade of size 26 raised the alert over a window of eleven or more
\* sizes whose mean, the trade's own size included, would have been too high for it
C6_Witness ==
    /\ last.op = "analyze"
    /\ HasAlert(last.ret, "UNUSUAL_SIZE")
    /\ OpSize(last) = 26
    /\ thresholds.unusual_size_multiplier = 250
    /\ LET w == market_volumes[OpMarketId(last)]
       IN  /\ Len(w) >= 12
           /\ w[Len(w)] = 26
           /\ 26 * Len(w) * 100 <= SeqSum(w) * 250

\* the other wallets that have, among their last 5 recorded trades, a trade on the
\* market and outcome of op less than 300 seconds away from it
CoordinatedOthers(op) ==
    { w \in DOMAIN wallet_history \ {OpWallet(op)} :
        \E i \in 1..Len(wallet_history[w]) :
            /\ i > Len(wallet_history[w]) - 5
            /\ wallet_history[w][i].market_id = OpMarketId(op)
            /\ wallet_history[w][i].outcome = OpOutcome(op)
            /\ Abs(OpTimestamp(op) - wallet_history[w][i].timestamp) < 300 }

CoordinatedCase(op) ==
    /\ OpValue(op) > thresholds.coordinated_min_value
    /\ (Cardinality(CoordinatedOthers(op)) + 1) * 100 >= thresholds.coordinated_min_wallets

\* the analysed trades are those of the claim's scenario: 0xA, 0xB, 0xC, in this
\* order and once each, the same outcome on M1 within 300 seconds of each other with
\* value above the minimum, any trades of 0xD on another outcome, and
\* coordinated_min_wallets = 3 throughout
AbcScenario ==
    LET NotD(a) == a.wallet # "0xD"
        abc == SelectSeq(arrivals, NotD)
    IN  /\ last_set = <<>>
        /\ thresholds.coordinated_min_wallets = 300
        /\ Len(abc) = 3
        /\ abc[1].wallet = "0xA" /\ abc[2].wallet = "0xB" /\ abc[3].wallet = "0xC"
        /\ \A i \in 1..3 :
              /\ abc[i].market_id = "M1"
              /\ abc[i].outcome = "Yes"
              /\ abc[i].size * abc[i].price > thresholds.coordinated_min_value
              /\ \A j \in 1..3 : Abs(abc[i].timestamp - abc[j].timestamp) < 300
        /\ \A i \in DOMAIN arrivals :
              arrivals[i].wallet = "0xD" => arrivals[i].outcome # "Yes"

\* in the scenario exactly one call returned a COORDINATED_ENTRY alert: that of 0xC
OneAlertAtC ==
    \A i \in DOMAIN arrivals :
        "COORDINATED_ENTRY" \in arrivals[i].types <=> arrivals[i].wallet = "0xC"

\* C7 as claimed: an analyze_trade call returns a COORDINATED_ENTRY alert if and only
\* if the trade's value > coordinated_min_value and the distinct other wallets with a
\* matching trade among their last 5, plus one, are >= coordinated_min_wallets.
C7_CoordinatedEveryCall ==
    [][ last'.op = "analyze"
        => ( HasAlert(last'.ret, "COORDINATED_ENTRY") <=> CoordinatedCase(last') ) ]_vars

\* C7 amended: the same, for the calls on a market with an id whose key is not in the
\* ledger; and in the scenario of 0xA, 0xB, 0xC and 0xD exactly one
\* COORDINATED_ENTRY alert is returned, at the trade of 0xC.
C7_CoordinatedAnalysedCall ==
    /\ [][ ( /\ last'.op = "analyze"
             /\ Truthy(OpMarketId(last'))
             /\ OpKey(last') \notin sent_alerts )
           => ( HasAlert(last'.ret, "COORDINATED_ENTRY") <=> CoordinatedCase(last') )
       ]_vars
    /\ [](AbcScenario => OneAlertAtC)

\* C7 witness: 0xA, 0xB and 0xC entered, 0xD took the other side, and the call of
\* 0xC returned the alert for three wallets
C7_Witness ==
    /\ AbcScenario
    /\ Len(arrivals) = 4
    /\ last.op = "analyze"
    /\ OpWallet(last) = "0xC"
    /\ \E i \in DOMAIN last.ret :
          /\ last.ret[i].type = "COORDINATED_ENTRY"
          /\ last.ret[i].coordinated_wallets = 3

\* an analyze_trade call has written the wallet's trade record and has not yet
\* written the outcome record, or holds alerts whose key is not yet in the ledger
PartiallyApplied ==
    \/ pc \in {"price", "fresh", "size", "niche", "outcome"}
    \/ pc \in {"conviction", "pre_move", "coordinated", "mark"} /\ frame.alerts # <<>>

\* an analyze_trade call has evaluated its first rule and not yet its last
BetweenRules == pc \in {"size", "niche", "outcome", "conviction", "pre_move", "coordinated"}

\* C11: analyze_trade is atomic with respect to command handling: no /status or
\* /stats reads the store statistics of a partially applied call, and no accepted
\* /set writes a threshold between two rule evaluations of one call.
C11_ProcessAtomic ==
    [][ /\ ( last'.op = "command" /\ last'.reply.kind \in {"status", "stats"} )
           => ~PartiallyApplied
        /\ ( last'.op = "command" /\ last'.reply.kind = "set_ok" )
           => ~BetweenRules ]_vars

\* the scan cycles that have started and not returned
InFlight == { i \in DOMAIN cycles : cycles[i].how = "open" }

\* C12: at most one scan cycle is in flight at any time, a scan cycle starts only
\* after the one before it has returned, normally or by an error caught in run(),
\* also when that one lasted longer than the scan interval, and analyze_trade is
\* only called by the one cycle in flight.
C12_ScansNeverOverlap ==
    /\ [](Cardinality(InFlight) <= 1)
    /\ [](\A i \in DOMAIN cycles :
             i < Len(cycles) => /\ cycles[i].how \in {"normal", "error", "paused"}
                                /\ cycles[i].ended <= cycles[i + 1].started)
    /\ [][ last'.op = "analyze"
           => /\ InFlight = {Len(cycles)}
              /\ Len(cycles') = Len(cycles)
              /\ Len(cycles'[Len(cycles)].analysed) = Len(Cur.analysed) + 1 ]_vars

\* C12 witness: the first cycle took longer than the scan interval, the second one
\* started after it had returned and is analysing its trades
C12_Witness ==
    /\ Len(cycles) = 2
    /\ cycles[1].how = "normal"
    /\ cycles[1].analysed # <<>>
    /\ cycles[1].ended - cycles[1].started > scan_interval
    /\ cycles[2].how = "open"
    /\ cycles[2].started >= cycles[1].ended + scan_interval
    /\ cycles[2].analysed # <<>>

\* position <<market index, trade index>> a comes before position b
Before(a, b) == a[1] < b[1] \/ (a[1] = b[1] /\ a[2] < b[2])

\* C13: within a scan cycle the markets are taken in the order of the list the
\* provider returned and the trades of a market in the order of its list; the alerts
\* are sent in the order they were detected, each once; a failed send changes neither
\* the order of the later sends nor any store or the ledger.
C13_OrderWithinCycle ==
    /\ [](\A n \in DOMAIN cycles :
            LET c == cycles[n]
            IN  /\ \A i, j \in DOMAIN c.analysed :
                      i < j => Before(c.analysed[i], c.analysed[j])
                /\ Len(c.sent) <= Len(c.detected)
                /\ \A i \in DOMAIN c.sent : c.sent[i].alert = c.detected[i]
                /\ c.how = "normal" => Len(c.sent) = Len(c.detected))
    /\ [][ /\ last'.op = "analyze"
              => /\ last'.trade = cycle.trades[cycle.ti]
                 /\ last'.market = cycle.markets[cycle.mi]
                 /\ cycles'[Len(cycles)].analysed = Append(Cur.analysed, <<cycle.mi, cycle.ti>>)
                 /\ cycles'[Len(cycles)].detected = Cur.detected \o last'.ret
           /\ last'.op = "send_telegram"
              => UNCHANGED <<stores, sent_alerts>> ]_vars

\* C13 witness: a cycle analysed two trades of the first market and one of the
\* third, each raising an alert; the first send failed, and the three alerts were
\* sent in the order detected
C13_Witness ==
    /\ cycles # <<>>
    /\ Cur.how = "normal"
    /\ Cur.analysed = << <<1, 1>>, <<1, 2>>, <<3, 1>> >>
    /\ Len(Cur.detected) = 3
    /\ Len(Cur.sent) = 3
    /\ ~Cur.sent[1].ok
    /\ Cur.sent[3].ok
    /\ Cur.sent[1].alert.wallet = "0xA"
    /\ Cur.sent[3].alert.wallet = "0xD"
    /\ Cardinality(sent_alerts) = 3

\* the indices of the markets of the list that carry a condition_id, in list order
RECURSIVE WithId(_, _)
WithId(markets, i) ==
    IF i > Len(markets) THEN <<>>
    ELSE IF ~IsStr(markets[i]) /\ Truthy(DictGet(markets[i], "condition_id", PyNone))
         THEN <<i>> \o WithId(markets, i + 1)
         ELSE WithId(markets, i + 1)

\* C14: when the fetch of a market's trades fails, no trade is analysed and no store
\* or ledger entry changes on behalf of that market in that cycle, and the remaining
\* markets of the cycle are still fetched and processed; when the fetch of the market
\* list fails, the cycle analyses no trade and changes nothing.
C14_FetchFailureIsolated ==
    /\ [](\A n \in DOMAIN cycles :
            LET c == cycles[n]
            IN  /\ c.markets_failed => ( c.analysed = <<>> /\ c.fetched = <<>> )
                /\ \A k \in DOMAIN c.fetched :
                      c.fetched[k].failed
                      => \A i \in DOMAIN c.analysed : c.analysed[i][1] # c.fetched[k].mi
                /\ ( ~c.markets_failed /\ c.how \in {"normal", "error"} )
                      => [k \in DOMAIN c.fetched |-> c.fetched[k].mi] = WithId(c.markets, 1))
    /\ [][ ( cycles # <<>> /\ Cur.how = "open" /\ Cur.markets_failed )
           => UNCHANGED <<stores, sent_alerts>> ]_vars

\* the six rule kinds in the order analyze_trade evaluates them
RuleOrder ==
    << "FRESH_WALLET_LARGE_BET", "UNUSUAL_SIZE", "REPEAT_NICHE_PLAYER",
       "HIGH_WIN_RATE_TRADER", "PRE_MOVE_POSITIONING", "COORDINATED_ENTRY" >>

RuleIndex(type) == CHOOSE i \in DOMAIN RuleOrder : RuleOrder[i] = type

\* the condition of each of the other rules for the call op, on the wallet's trade
\* record, the wallet's outcome record and the market's price window as they are
\* once the trade of op is appended
FreshCase(op, record, th) ==
    /\ OpValue(op) > th.fresh_wallet_min_value
    /\ ((op.now - record[1].timestamp) \div 86400) * 100 < th.fresh_wallet_days

NicheCase(op, record, th) ==
    /\ Cardinality({ i \in DOMAIN record : record[i].market = op.market.question }) * 100
          > th.niche_trades_min
    /\ op.market.volume < th.niche_volume_max

ConvictionCase(op, outcomes, th) ==
    /\ Len(outcomes) >= 10
    /\ Cardinality({ i \in DOMAIN outcomes :
                       /\ i > Len(outcomes) - 20
                       /\ (outcomes[i].price > 80 \/ outcomes[i].price < 20) }) * 100
          >= th.win_rate_conviction_min
    /\ OpValue(op) > th.win_rate_min_value

PreMoveCase(op, window, th) ==
    LET inside == { i \in DOMAIN window : OpTimestamp(op) - window[i].timestamp < 1800 }
    IN  /\ OpValue(op) > th.pre_move_min_value
        /\ Len(window) > 10
        /\ Cardinality(inside) >= 5
        /\ \E i \in inside :
              /\ \A j \in inside : i <= j
              /\ Abs(OpPrice(op) - window[i].price) > th.pre_move_change_pct

\* the rule kinds whose own condition holds for the call of this step
KindsDue(op) ==
    { k \in { RuleOrder[i] : i \in DOMAIN RuleOrder } :
        \/ k = "FRESH_WALLET_LARGE_BET"
             /\ FreshCase(op, wallet_history'[OpWallet(op)], thresholds)
        \/ k = "UNUSUAL_SIZE"
             /\ UnusualSizeCase(op, ListOf(market_volumes, OpMarketId(op)),
                                thresholds.unusual_size_multiplier)
        \/ k = "REPEAT_NICHE_PLAYER"
             /\ NicheCase(op, wallet_history'[OpWallet(op)], thresholds)
        \/ k = "HIGH_WIN_RATE_TRADER"
             /\ ConvictionCase(op, wallet_outcomes'[OpWallet(op)], thresholds)
        \/ k = "PRE_MOVE_POSITIONING"
             /\ PreMoveCase(op, market_prices'[OpMarketId(op)], thresholds)
        \/ k = "COORDINATED_ENTRY" /\ CoordinatedCase(op) }

\* C15: every analyze_trade call returns at most six alerts, at most one of each
\* rule kind, in the fixed order of the rules, each carrying the dedup key of the
\* trade; and a call that is not suppressed returns the alert of every rule whose
\* own condition holds, whatever other rules fire on the same trade.
C15_BatchShape ==
    [][ last'.op = "analyze"
        => LET ret == last'.ret
           IN  /\ Len(ret) <= 6
               /\ \A i \in DOMAIN ret :
                     /\ ret[i].type \in { RuleOrder[k] : k \in DOMAIN RuleOrder }
                     /\ ret[i].key = OpKey(last')
               /\ \A i, j \in DOMAIN ret :
                     i < j => RuleIndex(ret[i].type) < RuleIndex(ret[j].type)
               /\ OpKey(last') \notin sent_alerts
                     => { ret[i].type : i \in DOMAIN ret } = KindsDue(last') ]_vars

\* C15 witness: one call returned the alerts of all six rules, and another call
\* returned those of some rules with a rule between them silent
C15_Witness ==
    /\ last.op = "analyze"
    /\ [i \in DOMAIN last.ret |-> last.ret[i].type] = RuleOrder
    /\ \E i \in DOMAIN arrivals :
          /\ "FRESH_WALLET_LARGE_BET" \in arrivals[i].types
          /\ "UNUSUAL_SIZE" \notin arrivals[i].types
          /\ "HIGH_WIN_RATE_TRADER" \in arrivals[i].types

\* C16: the ledger only grows; an analyze_trade call adds the dedup key of its trade
\* to the ledger if and only if it returns a non-empty list, and adds nothing else;
\* the ledger changes only in the last step of a call, after all six rules have been
\* evaluated.
C16_LedgerLifeCycle ==
    [][ /\ sent_alerts \subseteq sent_alerts'
        /\ last'.op = "analyze"
           => /\ (OpKey(last') \in sent_alerts' \ sent_alerts) <=> (last'.ret # <<>>)
              /\ sent_alerts' \subseteq sent_alerts \cup {OpKey(last')}
        /\ sent_alerts' # sent_alerts
           => /\ pc = "mark"
              /\ pc' = "idle"
              /\ last'.op = "analyze" ]_vars

\* C16 witness: of three calls two returned alerts and one returned none; the ledger
\* holds the keys of the two and not that of the third
C16_Witness ==
    /\ last.op = "analyze"
    /\ last.ret # <<>>
    /\ Len(arrivals) = 3
    /\ \E i \in DOMAIN arrivals : arrivals[i].types = {}
    /\ Cardinality(sent_alerts) = 2
    /\ OpKey(last) \in sent_alerts

\* C17 as claimed: an analyze_trade call returns a REPEAT_NICHE_PLAYER alert if and
\* only if the entries of the wallet's trade record with the question of the current
\* market, the current trade counted, are more than niche_trades_min and the market's
\* volume < niche_volume_max.
C17_NicheEveryCall ==
    [][ last'.op = "analyze"
        => ( HasAlert(last'.ret, "REPEAT_NICHE_PLAYER")
             <=> NicheCase(last', ListOf(wallet_history', OpWallet(last')), thresholds) )
      ]_vars

\* C17 amended: the same, for the calls whose key is not in the ledger (a call with a
\* key of the ledger appends nothing and returns nothing); the entries are matched
\* by question, so those recorded under another market id with the same question
\* count.
C17_NicheAnalysedCall ==
    [][ ( last'.op = "analyze" /\ OpKey(last') \notin sent_alerts )
        => ( HasAlert(last'.ret, "REPEAT_NICHE_PLAYER")
             <=> NicheCase(last', wallet_history'[OpWallet(last')], thresholds) ) ]_vars

\* C17 witness: the alert was returned for the fourth trade of a wallet on the
\* question, only two of the four recorded under the id of the current market
C17_Witness ==
    /\ last.op = "analyze"
    /\ \E i \in DOMAIN last.ret :
          /\ last.ret[i].type = "REPEAT_NICHE_PLAYER"
          /\ last.ret[i].trades_count = 4
    /\ LET record == wallet_history[OpWallet(last)]
       IN  /\ Len(record) = 4
           /\ Cardinality({ i \in DOMAIN record :
                              record[i].market_id = OpMarketId(last) }) = 2
           /\ \A i \in DOMAIN record : record[i].market = last.market.question

\* C18 as claimed: an analyze_trade call returns a PRE_MOVE_POSITIONING alert if and
\* only if the trade's value > pre_move_min_value, the market's price window with
\* the current trade appended has more than 10 entries, at least 5 of them are dated
\* less than 1800 seconds before the current timestamp, and the current price
\* differs by more than pre_move_change_pct from the price of the first such entry
\* in stored order.
C18_PreMoveEveryCall ==
    [][ last'.op = "analyze"
        => ( HasAlert(last'.ret, "PRE_MOVE_POSITIONING")
             <=> PreMoveCase(last', ListOf(market_prices', OpMarketId(last')), thresholds) )
      ]_vars

\* C18 amended: the same, for the calls on a market with an id whose key is not in
\* the ledger (a call with a key of the ledger appends nothing and returns nothing).
C18_PreMoveAnalysedCall ==
    [][ ( /\ last'.op = "analyze"
          /\ Truthy(OpMarketId(last'))
          /\ OpKey(last') \notin sent_alerts )
        => ( HasAlert(last'.ret, "PRE_MOVE_POSITIONING")
             <=> PreMoveCase(last', market_prices'[OpMarketId(last')], thresholds) ) ]_vars

\* C18 witness: the alert was returned against the price of the first stored entry,
\* 0.90, while an entry stored later carries an earlier timestamp and a price, 0.50,
\* from which the current price differs by less than the threshold
C18_Witness ==
    /\ last.op = "analyze"
    /\ \E i \in DOMAIN last.ret :
          /\ last.ret[i].type = "PRE_MOVE_POSITIONING"
          /\ last.ret[i].old_price = 90
    /\ LET window == market_prices[OpMarketId(last)]
       IN  \E i, j \in DOMAIN window :
              /\ i < j
              /\ window[i].price = 90
              /\ \A k \in DOMAIN window : i <= k
              /\ window[j].timestamp < window[i].timestamp
              /\ Abs(OpPrice(last) - window[j].price) <= thresholds.pre_move_change_pct

\* a scan cycle that started while the pause flag was set fetched nothing, analysed
\* no trade, detected and sent no alert, and its start changed no store; /pause and
\* /resume change neither the stores nor the ledger
PausedCycleIdle ==
    /\ [](\A n \in DOMAIN cycles :
             cycles[n].paused_at_start
             => /\ cycles[n].how = "paused"
                /\ cycles[n].markets = <<>>
                /\ cycles[n].fetched = <<>>
                /\ cycles[n].analysed = <<>>
                /\ cycles[n].detected = <<>>
                /\ cycles[n].sent = <<>>)
    /\ [][ /\ Len(cycles') > Len(cycles) => UNCHANGED <<stores, sent_alerts>>
           /\ ( last'.op = "command" /\ last'.text \in { <<"/pause">>, <<"/resume">> } )
              => UNCHANGED <<stores, sent_alerts>> ]_vars

\* C19 as claimed: a paused bot detects nothing, and pausing and resuming reset
\* nothing, so that the stores and the ledger at /resume are exactly those held at
\* /pause: no step changes them while the pause flag is set.
C19_PauseFreezesState ==
    /\ PausedCycleIdle
    /\ [][ is_paused => UNCHANGED <<stores, sent_alerts>> ]_vars

\* C19 amended: the same, except that the cycle in flight when /pause is handled
\* runs to its end: while the pause flag is set the stores and the ledger change
\* only by the analyze_trade calls of a cycle that started before the flag was set,
\* and entries are only appended.
C19_PauseStopsNewCycles ==
    /\ PausedCycleIdle
    /\ [][ ( is_paused /\ <<stores, sent_alerts>>' # <<stores, sent_alerts>> )
           => /\ last'.op = "analyze"
              /\ InFlight = {Len(cycles)}
              /\ ~Cur.paused_at_start
              /\ sent_alerts \subseteq sent_alerts'
              /\ \A w \in DOMAIN wallet_history :
                    /\ w \in DOMAIN wallet_history'
                    /\ Len(wallet_history'[w]) >= Len(wallet_history[w]) ]_vars

\* C19 witness: a cycle recorded trades and raised an alert, /pause came, the next
\* cycle started paused and did nothing, and /resume found the stores and the ledger
\* as that first cycle left them
C19_Witness ==
    /\ last.op = "command"
    /\ last.text = <<"/resume">>
    /\ ~is_paused
    /\ Len(cycles) = 2
    /\ cycles[1].how = "normal"
    /\ Len(cycles[1].analysed) = 2
    /\ cycles[2].paused_at_start
    /\ cycles[2].how = "paused"
    /\ Len(arrivals) = 2
    /\ TotalTrades(wallet_history, DOMAIN wallet_history) = 2
    /\ sent_alerts # {}

\* the update is a message sent from the chat the bot is configured with
FromConfiguredChat(update) ==
    /\ "message" \in DOMAIN update
    /\ "chat" \in DOMAIN update.message
    /\ "id" \in DOMAIN update.message.chat
    /\ update.message.chat.id = 2102682028

\* C20: process_command is called for the updates that are messages from the
\* configured chat and for no other; an update from another chat, without a chat or
\* without a message changes neither the pause flag nor the scan interval nor a
\* threshold; its update id is recorded all the same, so that no update is looked at
\* twice and get_updates does not return it again.
C20_OnlyConfiguredChat ==
    /\ [](\A i \in DOMAIN seen :
             /\ seen[i].passed <=> FromConfiguredChat(inbox[seen[i].update_id])
             /\ seen[i].update_id <= last_update_id
             /\ \A j \in DOMAIN seen : i < j => seen[i].update_id < seen[j].update_id)
    /\ [][ /\ last'.op = "command" => FromConfiguredChat(last'.update)
           /\ config' # config
                => ( last'.op = "command" /\ FromConfiguredChat(last'.update) )
           /\ last'.op = "skip_update"
                => ( last_update_id' = last'.update.update_id /\ UNCHANGED config )
           /\ last'.op = "get_updates"
                => \A i \in DOMAIN last'.result : \A j \in DOMAIN seen :
                      last'.result[i] # seen[j].update_id ]_vars

\* C20 witness: /pause from another chat and a message without a chat were looked at
\* and not handled, the bot is not paused, and the next get_updates returned only
\* the third update
C20_Witness ==
    /\ last.op = "get_updates"
    /\ last.result = << 3 >>
    /\ Len(seen) = 2
    /\ inbox[1] = [update_id |-> 1] @@ MessageFrom(7, <<"/pause">>)
    /\ "chat" \notin DOMAIN inbox[2].message
    /\ ~seen[1].passed
    /\ ~seen[2].passed
    /\ last_update_id = 2
    /\ ~is_paused
    /\ nOps = 0

\* the words that are the decimal writing of a number from 10 to 600
InRangeWords == { "10", "600", "30", "0030", ArabicIndicThirty }

\* the number such a word writes
WordValue(w) == IF w = "10" THEN 10 ELSE IF w = "600" THEN 600 ELSE 30

\* an '/interval' message with one argument that writes a number from 10 to 600
WellFormedInterval(text) ==
    /\ Len(text) = 2
    /\ text[1] \in {"/interval", "/intervals"}
    /\ text[2] \in InRangeWords

\* C21: the scan interval is 60 at the start and an integer from 10 to 600 in every
\* reachable state; a step changes it only when it handles an '/interval' message
\* with exactly one argument that writes a number in that range, and then to that
\* number: a value out of the range, an argument that is not a number and a wrong
\* number of arguments leave it as it was.
C21_IntervalBound ==
    /\ scan_interval = 60
    /\ [](scan_interval \in 10..600)
    /\ [][ /\ ( last'.op = "command" /\ ~WellFormedInterval(last'.text) )
                => scan_interval' = scan_interval
           /\ scan_interval' # scan_interval
                => ( /\ last'.op = "command"
                     /\ WellFormedInterval(last'.text)
                     /\ scan_interval' = WordValue(last'.text[2]) ) ]_vars

\* C21 witness: '/interval 600' was accepted and then '/interval 601' handled, the
\* interval staying 600
C21_Witness ==
    /\ Len(seen) = 2
    /\ inbox[1].message.text = <<"/interval", "600">>
    /\ last.op = "command"
    /\ last.text = <<"/interval", "601">>
    /\ last.reply.kind = "interval_range"
    /\ scan_interval = 600

====
